---- MODULE Spec2Model ----
(***************************************************************************)
(* Model of the WordPress publishing client (src/app/wordpress.py):        *)
(* slug derivation, tag-list normalisation, taxonomy resolution with the   *)
(* category cache, media upload with retry, post submission and the        *)
(* paginated post listing.                                                 *)
(*                                                                         *)
(* Strings are sequences of one-character strings, so that strip, lower,   *)
(* split, isdigit, int() and str() are computed character by character.    *)
(***************************************************************************)
EXTENDS Integers, Sequences, FiniteSets, TLC

VARIABLES
    \* ---- _slugify applied once and twice
    sl_pc, sl_name, sl_once, sl_twice,
    \* ---- tag-list normalisation of _ensure_tag_ids
    nm_pc, nm_tags, nm_max, nm_cleaned,
    \* ---- upload_media_from_url
    up_pc, up_max_attempts, up_attempt, up_outcomes, up_sleeps, up_result,
    \* ---- get_published_posts
    pg_pc, pg_avail, pg_max_posts, pg_all_posts, pg_page, pg_requests, pg_failed,
    \* ---- the client: cache, remote store, and the call in progress
    c_pc, categories_map, remote_cats, remote_tags, writer_steps, calls,
    refs_used, c_caller, payload, cleaned_tags, tag_ids, ti,
    category_ids, cleaned_names, cat_ids, ci,
    c_outcomes, c_log, c_submitted, c_return, c_creates, c_resolved, c_cache0,
    \* ---- __init__ with the bulk fetch of _fetch_all_categories
    in_pc, in_url, in_seed, in_api_url, in_avail, in_page, in_all, in_requests,
    in_failed, in_map,
    \* ---- get_tags_map_by_ids
    tm_pc, tm_ids, tm_unique, tm_i, tm_requests, tm_map,
    \* ---- _ensure_tag_ids given one string instead of a list
    ts_pc, ts_tags, ts_cleaned,
    \* ---- the verification loops of _get_existing_category_id / _get_existing_tag_id
    mt_pc, mt_items, mt_name, mt_result,
    \* ---- set_media_alt_text, and the alt_text argument of the upload
    al_pc, al_text, al_requests, al_result,
    \* ---- create_post on a payload with or without a status field
    st_pc, st_given, st_payload, st_submitted, st_return,
    \* ---- test_category_creation
    tc_pc, tc_cat_id, tc_requests, tc_result

slugVars == <<sl_pc, sl_name, sl_once, sl_twice>>
normVars == <<nm_pc, nm_tags, nm_max, nm_cleaned>>
uploadVars == <<up_pc, up_max_attempts, up_attempt, up_outcomes, up_sleeps, up_result>>
pageVars == <<pg_pc, pg_avail, pg_max_posts, pg_all_posts, pg_page, pg_requests,
              pg_failed>>

clientVars == <<c_pc, categories_map, remote_cats, remote_tags, writer_steps,
                calls, refs_used, c_caller, payload, cleaned_tags, tag_ids, ti,
                category_ids, cleaned_names, cat_ids, ci,
                c_outcomes, c_log, c_submitted, c_return, c_creates, c_resolved,
                c_cache0>>

initVars == <<in_pc, in_url, in_seed, in_api_url, in_avail, in_page, in_all,
              in_requests, in_failed, in_map>>
tagmapVars == <<tm_pc, tm_ids, tm_unique, tm_i, tm_requests, tm_map>>
strtagVars == <<ts_pc, ts_tags, ts_cleaned>>
matchVars == <<mt_pc, mt_items, mt_name, mt_result>>
altVars == <<al_pc, al_text, al_requests, al_result>>
statusVars == <<st_pc, st_given, st_payload, st_submitted, st_return>>
testVars == <<tc_pc, tc_cat_id, tc_requests, tc_result>>

vars == <<slugVars, normVars, uploadVars, pageVars, clientVars, initVars, tagmapVars,
          strtagVars, matchVars, altVars,
    statusVars, testVars>>

\* Optional values: None is the empty tuple, a value v is <<v>>
None == <<>>
Some(v) == <<v>>

\* Python truth value of an Optional[int]: None and 0 are false
Truthy(x) == x # None /\ x[1] # 0

\* Python's "x or y"
Or(x, y) == IF Truthy(x) THEN x ELSE y

(***************************************************************************)
(* Characters and the str methods the client uses                          *)
(***************************************************************************)
LowerLetters == {"a", "b", "c", "d", "e", "f", "g", "i", "m", "n", "s", "t", "u"}
UpperLetters == {"A", "B", "C", "F", "M", "N"}
Digits == {"0", "1", "2", "3", "4", "5", "6", "7", "8", "9"}
Whitespace == {" "}

\* str.lower() on one character
LowerChar(c) ==
    CASE c = "A" -> "a"
      [] c = "B" -> "b"
      [] c = "C" -> "c"
      [] c = "F" -> "f"
      [] c = "M" -> "m"
      [] c = "N" -> "n"
      [] OTHER -> c

\* str.lower()
Lower(s) == [i \in 1..Len(s) |-> LowerChar(s[i])]

MinOf(S) == CHOOSE x \in S : \A y \in S : x <= y
MaxOf(S) == CHOOSE x \in S : \A y \in S : x >= y

\* str.strip(chars): drop the leading and trailing characters that are in cs
StripChars(s, cs) ==
    LET keep == {i \in 1..Len(s) : s[i] \notin cs}
    IN IF keep = {} THEN <<>> ELSE SubSeq(s, MinOf(keep), MaxOf(keep))

\* str.strip()
Strip(s) == StripChars(s, Whitespace)

\* regex class \w (re.UNICODE): letters, digits and underscore
IsWordChar(c) == c \in LowerLetters \cup UpperLetters \cup Digits \cup {"_"}

\* regex class [\s_-]
IsSeparator(c) == c \in Whitespace \cup {"_", "-"}

\* re.sub(r'[^\w\s-]', '', s)
RemoveNonWord(s) ==
    SelectSeq(s, LAMBDA c : IsWordChar(c) \/ c \in Whitespace \/ c = "-")

\* re.sub(r'[\s_-]+', '-', s): each maximal run of separators becomes one hyphen
CollapseSeparators(s) ==
    LET idx == [i \in 1..Len(s) |-> i]
        heads == SelectSeq(idx, LAMBDA i :
                     \/ ~IsSeparator(s[i])
                     \/ i = 1
                     \/ ~IsSeparator(s[i - 1]))
    IN [k \in 1..Len(heads) |->
            IF IsSeparator(s[heads[k]]) THEN "-" ELSE s[heads[k]]]

\* s[:n]: the first n items, and for a negative n all but the last -n items
Prefix(s, n) ==
    LET stop == IF n < 0 THEN Len(s) + n ELSE IF Len(s) < n THEN Len(s) ELSE n
    IN IF stop <= 0 THEN <<>> ELSE SubSeq(s, 1, stop)

\* the slice bound of _slugify
SlugMaxLen == 190

\* the slice of the stripped slug: s.strip('-')[:190]
SlugTruncate(s) == Prefix(StripChars(s, {"-"}), SlugMaxLen)

\* _slugify(name)
_slugify(name) ==
    LET s1 == Lower(Strip(name))
        s2 == RemoveNonWord(s1)
        s3 == CollapseSeparators(s2)
        s4 == SlugTruncate(s3)
    IN IF s4 = <<>> THEN <<"t", "a", "g">> ELSE s4

\* str.isdigit()
IsDigit(s) == Len(s) >= 1 /\ \A i \in 1..Len(s) : s[i] \in Digits

DigitValue(c) ==
    CASE c = "0" -> 0 [] c = "1" -> 1 [] c = "2" -> 2 [] c = "3" -> 3
      [] c = "4" -> 4 [] c = "5" -> 5 [] c = "6" -> 6 [] c = "7" -> 7
      [] c = "8" -> 8 [] c = "9" -> 9

DigitChar(d) ==
    CASE d = 0 -> "0" [] d = 1 -> "1" [] d = 2 -> "2" [] d = 3 -> "3"
      [] d = 4 -> "4" [] d = 5 -> "5" [] d = 6 -> "6" [] d = 7 -> "7"
      [] d = 8 -> "8" [] d = 9 -> "9"

\* int(s) for a string of digits
RECURSIVE ParseInt(_)
ParseInt(s) ==
    IF Len(s) = 0 THEN 0
    ELSE 10 * ParseInt(SubSeq(s, 1, Len(s) - 1)) + DigitValue(s[Len(s)])

\* str(n) for an integer
RECURSIVE NatToStr(_)
NatToStr(n) ==
    IF n < 10 THEN <<DigitChar(n)>>
    ELSE NatToStr(n \div 10) \o <<DigitChar(n % 10)>>

IntToStr(n) == IF n < 0 THEN <<"-">> \o NatToStr(-n) ELSE NatToStr(n)

\* n copies of character c
Repeat(c, n) == [i \in 1..n |-> c]

\* all sequences over S of length at most n
SeqsUpTo(S, n) == UNION {[1..k -> S] : k \in 0..n}

(***************************************************************************)
(* _slugify, applied to a name and again to its own result                 *)
(***************************************************************************)
\* longest tail appended to the padding of a slug input
MaxTail == 3

TailChars == {"a", "B", "-", " ", "!", "_"}

\* lengths of the padding "aaa..." that put the tail around the slice bound
PadLens == {0, 1, SlugMaxLen - 2, SlugMaxLen - 1, SlugMaxLen}

SlugInputs ==
    {Repeat("a", p) \o t : p \in PadLens, t \in SeqsUpTo(TailChars, MaxTail)}

notSlug == <<normVars, uploadVars, pageVars, clientVars, initVars, tagmapVars,
             strtagVars, matchVars, altVars,
    statusVars, testVars>>

SlugifyOnce ==
    /\ sl_pc = "input"
    /\ sl_once' = _slugify(sl_name)
    /\ sl_pc' = "once"
    /\ UNCHANGED <<sl_name, sl_twice, notSlug>>

SlugifyTwice ==
    /\ sl_pc = "once"
    /\ sl_twice' = _slugify(sl_once)
    /\ sl_pc' = "twice"
    /\ UNCHANGED <<sl_name, sl_once, notSlug>>

(***************************************************************************)
(* Tag-list normalisation: the first half of _ensure_tag_ids               *)
(***************************************************************************)
\* a list item: a Python int, a str, or a value of another type
IntItem(n) == [t |-> "int", n |-> n, s |-> <<>>]
StrItem(s) == [t |-> "str", n |-> 0, s |-> s]
OtherItem == [t |-> "other", n |-> 0, s |-> <<>>]

\* str.split(',')
RECURSIVE Split(_)
Split(s) ==
    LET commas == {i \in 1..Len(s) : s[i] = ","}
    IN IF commas = {} THEN <<s>>
       ELSE LET i == MinOf(commas)
            IN <<SubSeq(s, 1, i - 1)>> \o Split(SubSeq(s, i + 1, Len(s)))

\* [p.strip() for p in t.split(',') if p.strip()]
StrippedParts(s) ==
    LET parts == Split(s)
        stripped == [i \in 1..Len(parts) |-> Strip(parts[i])]
    IN SelectSeq(stripped, LAMBDA p : p # <<>>)

\* what one item adds to norm_tags
ItemEntries(item) ==
    CASE item.t = "int" -> <<IntToStr(item.n)>>
      [] item.t = "str" -> StrippedParts(item.s)
      [] OTHER -> <<>>

\* the loop building norm_tags
RECURSIVE NormTags(_)
NormTags(tags) ==
    IF tags = <<>> THEN <<>>
    ELSE NormTags(SubSeq(tags, 1, Len(tags) - 1)) \o ItemEntries(tags[Len(tags)])

\* mutant: the list is kept as it is, duplicates included
DictFromKeysKeepsAll(xs) == xs

\* list(dict.fromkeys(xs)): first occurrences, in order
DictFromKeys(xs) ==
    LET idx == [i \in 1..Len(xs) |-> i]
        firsts == SelectSeq(idx, LAMBDA i : \A j \in 1..(i - 1) : xs[j] # xs[i])
    IN [k \in 1..Len(firsts) |-> xs[firsts[k]]]

\* cleaned_tags = list(dict.fromkeys(norm_tags))[:max_tags]
CleanedTags(tags, max_tags) == Prefix(DictFromKeys(NormTags(tags)), max_tags)

\* default of the max_tags parameter
DefaultMaxTags == 10

\* longest generated tag list
MaxTagItems == 2

Str_Messi == <<"M", "e", "s", "s", "i">>
Str_messi == <<"m", "e", "s", "s", "i">>

TagItems ==
    { IntItem(2), IntItem(12), StrItem(<<"2">>), StrItem(<<"0", "2">>),
      StrItem(Str_Messi), StrItem(Str_messi),
      StrItem(<<"a", ",", "b">>), StrItem(<<" ", "a", " ", ",", ",", " ", "b", ",">>),
      StrItem(<<>>), StrItem(<<" ">>), OtherItem }

\* the list of the specification's example and a list longer than the default bound
ExampleTags ==
    << StrItem(Str_Messi), StrItem(Str_messi), StrItem(<<"2">>), IntItem(2),
       StrItem(<<"a", ",", "b">>), StrItem(<<>>) >>
LongTags == [i \in 1..(DefaultMaxTags + 2) |-> IntItem(i)]

NormInputs == SeqsUpTo(TagItems, MaxTagItems) \cup {ExampleTags, LongTags}

MaxTagsChoices == {0, 1, 2, DefaultMaxTags}

notNorm == <<slugVars, uploadVars, pageVars, clientVars, initVars, tagmapVars,
             strtagVars, matchVars, altVars,
    statusVars, testVars>>

\* _ensure_tag_ids up to the computation of cleaned_tags
NormalizeTags ==
    /\ nm_pc = "input"
    /\ nm_cleaned' = IF nm_tags = <<>> THEN <<>> ELSE CleanedTags(nm_tags, nm_max)
    /\ nm_pc' = "cleaned"
    /\ UNCHANGED <<nm_tags, nm_max, notNorm>>

(***************************************************************************)
(* upload_media_from_url: one action per attempt of the retry loop         *)
(***************************************************************************)
\* default of the max_attempts parameter
DefaultMaxAttempts == 3

\* largest max_attempts a caller passes
MaxAttemptsArg == 3

\* what one attempt can meet: requests.Timeout or requests.ConnectionError in
\* the download or in the upload, an HTTP error status (raise_for_status) in
\* either, or success
NetworkFailures ==
    {"download_timeout", "download_connection_error",
     "upload_timeout", "upload_connection_error"}
HttpFailures == {"download_http_404", "upload_http_500"}
AttemptOutcomes == NetworkFailures \cup HttpFailures \cup {"success"}

\* the attachment record the remote returns for the upload of attempt k
Attachment(k) == [id |-> 100 + k]

\* time.sleep(2 * attempt)
Backoff(attempt) == 2 * attempt

\* mutant: every failure is retried
IsRetriableAnyFailure(outcome) == outcome # "success"

\* except (requests.Timeout, requests.ConnectionError): retried
IsRetriable(outcome) == outcome \in NetworkFailures

notUpload == <<slugVars, normVars, pageVars, clientVars, initVars, tagmapVars,
               strtagVars, matchVars, altVars,
    statusVars, testVars>>

\* entry: range(1, max_attempts + 1) is empty for max_attempts = 0, and the
\* final log line then reads the unbound loop variable
UploadCall ==
    /\ up_pc = "call"
    /\ up_pc' = IF up_max_attempts >= 1 THEN "loop" ELSE "raised"
    /\ UNCHANGED <<up_max_attempts, up_attempt, up_outcomes, up_sleeps, up_result,
                   notUpload>>

\* one iteration of the for loop, and the return after the loop when it ends
UploadAttempt ==
    /\ up_pc = "loop"
    /\ up_attempt < up_max_attempts
    /\ \E outcome \in AttemptOutcomes :
          LET attempt == up_attempt + 1 IN
          /\ up_attempt' = attempt
          /\ up_outcomes' = Append(up_outcomes, outcome)
          /\ IF outcome = "success"
                THEN /\ up_result' = Some(Attachment(attempt))
                     /\ up_pc' = "done"
                     /\ UNCHANGED up_sleeps
                ELSE IF IsRetriable(outcome)
                THEN /\ up_sleeps' = Append(up_sleeps, Backoff(attempt))
                     /\ up_result' = None
                     /\ up_pc' = IF attempt < up_max_attempts THEN "loop" ELSE "done"
                ELSE /\ up_result' = None
                     /\ up_pc' = "done"
                     /\ UNCHANGED up_sleeps
    /\ UNCHANGED <<up_max_attempts, notUpload>>

(***************************************************************************)
(* set_media_alt_text, called on the attachment an upload returned         *)
(***************************************************************************)
\* the alt_text argument: the default "" or a text
AltChoices == {<<>>, <<"A">>}

\* the answers the alt-text request can get
AltAnswers == {"ok", "http_error", "network_failure"}

notAlt == <<slugVars, normVars, uploadVars, pageVars, clientVars, initVars,
            tagmapVars, strtagVars, matchVars,
    statusVars, testVars>>

\* set_media_alt_text(media_id, alt_text): False without a request for an
\* empty text; else one POST /media/{id}, True when it is accepted and False
\* from the except branch (raise_for_status and the transport raise
\* RequestException)
SetMediaAltText ==
    /\ al_pc = "idle"
    /\ up_pc = "done"
    /\ up_result # None
    /\ \E alt_text \in AltChoices :
          IF alt_text = <<>>
            THEN /\ al_result' = "False"
                 /\ UNCHANGED al_requests
            ELSE \E answer \in AltAnswers :
                    /\ al_requests' = Append(al_requests,
                                             [media_id |-> up_result[1].id,
                                              alt_text |-> alt_text,
                                              answer |-> answer])
                    /\ al_result' = IF answer = "ok" THEN "True" ELSE "False"
    /\ al_pc' = "returned"
    /\ UNCHANGED <<al_text, notAlt>>

(***************************************************************************)
(* get_published_posts: one action per iteration of the while loop         *)
(***************************************************************************)
\* per_page
PerPage == 100

\* most full pages the remote holds
MaxFullPages == 2

AvailChoices == {f * PerPage + r : f \in 0..MaxFullPages, r \in {0, 37}}

MaxPostsChoices == {None} \cup {Some(m) : m \in {0, 1, 50, 100, 150, 250}}

\* the max_posts of the listing that runs beside the bulk fetch
PaginationMaxPosts == {None, Some(150)}

\* pg_avail of a remote that answers every page request with a full page
Endless == -1

\* the posts of page p of a remote that holds posts 1..avail, or of an endless
\* remote
RemotePage(avail, p) ==
    LET first == (p - 1) * PerPage + 1
        last == IF avail = Endless \/ p * PerPage < avail THEN p * PerPage ELSE avail
    IN IF last < first THEN <<>> ELSE [i \in 1..(last - first + 1) |-> first + i - 1]

\* if max_posts: all_posts = all_posts[:max_posts]
Trim(posts, max_posts) ==
    IF Truthy(max_posts) THEN Prefix(posts, max_posts[1]) ELSE posts

notPage == <<slugVars, normVars, uploadVars, clientVars, initVars, tagmapVars,
             strtagVars, matchVars, altVars,
    statusVars, testVars>>

\* mutant: the limit counts as reached only once it is exceeded
LimitReachedOnlyWhenExceeded ==
    Truthy(pg_max_posts) /\ Len(pg_all_posts) > pg_max_posts[1]

\* if max_posts and len(all_posts) >= max_posts
LimitReached == Truthy(pg_max_posts) /\ Len(pg_all_posts) >= pg_max_posts[1]

\* break at the top of the loop, then the trim and the return
PageLimitBreak ==
    /\ pg_pc = "loop"
    /\ LimitReached
    /\ pg_all_posts' = Trim(pg_all_posts, pg_max_posts)
    /\ pg_pc' = "done"
    /\ UNCHANGED <<pg_avail, pg_max_posts, pg_page, pg_requests, pg_failed, notPage>>

\* one page request that fails (requests.RequestException): break, trim, return
PageRequestFails ==
    /\ pg_pc = "loop"
    /\ ~LimitReached
    /\ pg_requests' = Append(pg_requests, [page |-> pg_page, had |-> Len(pg_all_posts)])
    /\ pg_failed' = TRUE
    /\ pg_all_posts' = Trim(pg_all_posts, pg_max_posts)
    /\ pg_pc' = "done"
    /\ UNCHANGED <<pg_avail, pg_max_posts, pg_page, notPage>>

\* one page request that succeeds
PageRequestOk ==
    /\ pg_pc = "loop"
    /\ ~LimitReached
    /\ pg_requests' = Append(pg_requests, [page |-> pg_page, had |-> Len(pg_all_posts)])
    /\ LET posts == RemotePage(pg_avail, pg_page)
           all == pg_all_posts \o posts
       IN IF posts = <<>>
            THEN /\ pg_all_posts' = Trim(pg_all_posts, pg_max_posts)
                 /\ pg_pc' = "done"
                 /\ UNCHANGED pg_page
            ELSE IF Len(posts) < PerPage
            THEN /\ pg_all_posts' = Trim(all, pg_max_posts)
                 /\ pg_pc' = "done"
                 /\ UNCHANGED pg_page
            ELSE /\ pg_all_posts' = all
                 /\ pg_page' = pg_page + 1
                 /\ UNCHANGED pg_pc
    /\ UNCHANGED <<pg_avail, pg_max_posts, pg_failed, notPage>>

(***************************************************************************)
(* The remote store (WordPress terms) as the client's requests see it      *)
(***************************************************************************)
Term(id, name, slug) == [id |-> id, name |-> name, slug |-> slug]

\* the remote compares term names case-insensitively, trimmed
NameKey(name) == Lower(Strip(name))

\* POST of a term whose name the store already holds is answered
\* 400 {"code": "term_exists"}
TermExists(store, name) == \E t \in store : NameKey(t.name) = NameKey(name)

\* a slug already taken by a term of another name is made unique by the remote
UniqueSlug(store, slug) ==
    IF \E t \in store : t.slug = slug THEN slug \o <<"-", "2">> ELSE slug

\* IDs are assigned in sequence over both taxonomies
NextRemoteId(cats, tags) == 20 + Cardinality(cats) + Cardinality(tags)

\* the store after a successful POST {"name": name, "slug": slug}
StoreWith(store, id, name, slug) ==
    store \cup {Term(id, Strip(name), UniqueSlug(store, slug))}

\* the answers a creation request can get: "created" (201), "term_exists"
\* (400), or "error" (another HTTP error status, a timeout, a lost connection)
CreateAnswers(store, name) ==
    IF TermExists(store, name) THEN {"term_exists", "error"} ELSE {"created", "error"}

\* the items of a search response: the store's terms, by ascending ID
RECURSIVE SearchItems(_)
SearchItems(store) ==
    IF store = {} THEN <<>>
    ELSE LET t == CHOOSE x \in store : \A y \in store : x.id >= y.id
         IN Append(SearchItems(store \ {t}), t)

(***************************************************************************)
(* The client: construction, cache, taxonomy resolution, create_post       *)
(***************************************************************************)
S_Fu == <<"F", "u">>
S_Nb == <<"N", "b">>
S_nb == <<"n", "b", " ">>
S_NxB == <<"N", "!", "b">>
S_NB == <<"N", "B">>
S_Ma == <<"M", "a">>
S_ma == <<"m", "a">>
S_MA == <<"M", "A">>

\* dict.get(key): None when the key is absent
CacheGet(map, key) == IF key \in DOMAIN map THEN Some(map[key]) ELSE None

\* map[key] = id
CachePut(map, key, id) == (key :> id) @@ map

\* {k.lower(): v for k, v in categories_map.items()}, the seed given as the
\* sequence of its items
RECURSIVE LowerKeys(_)
LowerKeys(items) ==
    IF items = <<>> THEN <<>>
    ELSE LET it == items[Len(items)]
         IN CachePut(LowerKeys(SubSeq(items, 1, Len(items) - 1)), Lower(it[1]), it[2])

\* the map _fetch_all_categories builds from the fetched categories
\* (each key holds the ID of the last category that wrote it)
FetchedMap(items) ==
    LET idx == 1..Len(items)
        keys == {Lower(items[i].name) : i \in idx} \cup {items[i].slug : i \in idx}
    IN [key \in keys |->
           items[MaxOf({i \in idx : Lower(items[i].name) = key \/ items[i].slug = key})].id]

\* mutant: names are compared as they are, and there is no slug loop
MatchExistingExactName(items, name) ==
    LET byName == {i \in 1..Len(items) : items[i].name = name}
    IN IF byName # {} THEN Some(items[MinOf(byName)].id) ELSE None

\* mutant: the slug loop runs before the name loop
MatchExistingSlugFirst(items, name) ==
    LET byName == {i \in 1..Len(items) : Lower(Strip(items[i].name)) = Lower(Strip(name))}
        bySlug == {i \in 1..Len(items) : items[i].slug = _slugify(name)}
    IN IF bySlug # {} THEN Some(items[MinOf(bySlug)].id)
       ELSE IF byName # {} THEN Some(items[MinOf(byName)].id)
       ELSE None

\* the two verification loops of _get_existing_category_id / _get_existing_tag_id
MatchExisting(items, name) ==
    LET byName == {i \in 1..Len(items) : Lower(Strip(items[i].name)) = Lower(Strip(name))}
        bySlug == {i \in 1..Len(items) : items[i].slug = _slugify(name)}
    IN IF byName # {} THEN Some(items[MinOf(byName)].id)
       ELSE IF bySlug # {} THEN Some(items[MinOf(bySlug)].id)
       ELSE None

\* [x.f for x in xs]
MapSeq(xs, F(_)) == [i \in 1..Len(xs) |-> F(xs[i])]

\* the elements of a list
Range(xs) == {xs[i] : i \in 1..Len(xs)}

\* set() as CPython builds it for non-negative integers (hash(n) = n): an
\* open-addressing table of mask + 1 slots, of which fill are taken
EmptySet == [mask |-> 7, fill |-> 0, table |-> [i \in 0..7 |-> None]]

\* the slot of a key: from slot i the 9 following slots are tried when they
\* lie in the table, then the probe jumps to (5 * i + 1 + perturb) & mask
RECURSIVE SetSlot(_, _, _, _)
SetSlot(so, key, i, perturb) ==
    LET last == IF i + 9 <= so.mask THEN i + 9 ELSE i
        free == {j \in i..last : so.table[j] = None \/ so.table[j] = Some(key)}
    IN IF free # {} THEN MinOf(free)
       ELSE SetSlot(so, key, (5 * i + 1 + (perturb \div 32)) % (so.mask + 1),
                    perturb \div 32)

\* the keys of a table in the order of its slots
SetKeys(so) ==
    LET slots == SelectSeq([i \in 1..(so.mask + 1) |-> i - 1],
                           LAMBDA j : so.table[j] # None)
    IN [k \in 1..Len(slots) |-> so.table[slots[k]][1]]

\* set_table_resize(so, minused): the size of the new table is the first
\* power of two, from 8 on, above minused
RECURSIVE SetNewSize(_, _)
SetNewSize(size, minused) ==
    IF size > minused THEN size ELSE SetNewSize(2 * size, minused)

\* the minused of the resize: used > 50000 ? used * 2 : used * 4
SetMinUsed(used) == IF used > 50000 THEN 2 * used ELSE 4 * used

RECURSIVE SetAddAll(_, _, _, _)

\* set_add_entry: the key takes its slot unless it is there already; a table
\* filled to 3/5 is replaced by a larger one, its keys entered anew in the
\* order of their slots
SetAdd(so, key) ==
    LET slot == SetSlot(so, key, key % (so.mask + 1), key)
        added == [mask |-> so.mask, fill |-> so.fill + 1,
                  table |-> [so.table EXCEPT ![slot] = Some(key)]]
        size == SetNewSize(8, SetMinUsed(added.fill))
        keys == SetKeys(added)
    IN IF so.table[slot] = Some(key) THEN so
       ELSE IF 5 * added.fill < 3 * added.mask THEN added
       ELSE SetAddAll([mask |-> size - 1, fill |-> 0,
                       table |-> [i \in 0..(size - 1) |-> None]], keys, 1, Len(keys))

\* the keys xs[lo..hi] added one after the other
SetAddAll(so, xs, lo, hi) ==
    IF lo > hi THEN so
    ELSE IF lo = hi THEN SetAdd(so, xs[lo])
    ELSE LET mid == (lo + hi) \div 2
         IN CHOOSE whole \in {SetAddAll(half, xs, mid + 1, hi) :
                                  half \in {SetAddAll(so, xs, lo, mid)}} : TRUE

\* list(set(xs)) of non-negative integers: each element once, in the order
\* in which CPython iterates the set (the order of the slots of its table)
ListOfSet(xs) == SetKeys(SetAddAll(EmptySet, xs, 1, Len(xs)))

\* create_post: [str(c) for c in cat_input if isinstance(c, str) and not c.isdigit()]
CategoryNames(cat_input) ==
    MapSeq(SelectSeq(cat_input, LAMBDA c : c.t = "str" /\ ~IsDigit(c.s)), LAMBDA c : c.s)

\* create_post: [int(c) for c in cat_input if isinstance(c, int) or c.isdigit()]
CategoryIds(cat_input) ==
    MapSeq(SelectSeq(cat_input, LAMBDA c : c.t = "int" \/ (c.t = "str" /\ IsDigit(c.s))),
           LAMBDA c : IF c.t = "int" THEN c.n ELSE ParseInt(c.s))

\* resolve_category_names_to_ids: cleaned_names
CleanedNames(names) ==
    DictFromKeys(MapSeq(SelectSeq(names, LAMBDA n : Strip(n) # <<>> /\ Len(n) >= 1),
                        LAMBDA n : Strip(n)))

\* the ID the remote gives the post of the k-th call
PostId(k) == 500 + k

\* calls made on one client
MaxCalls == 2

\* references (tags and categories together) handed to one client over its calls
MaxRefs == 2

\* terms another writer adds to the remote store
MaxWriterSteps == 1

CatRefs == {StrItem(S_Fu), StrItem(S_Nb), IntItem(8)}
TagRefs == {StrItem(S_Ma), StrItem(S_ma), IntItem(2)}

Payloads ==
    {pl \in [tags : SeqsUpTo(TagRefs, MaxRefs), categories : SeqsUpTo(CatRefs, MaxRefs)] :
        Len(pl.tags) + Len(pl.categories) <= MaxRefs}

\* names handed to resolve_category_names_to_ids directly
ResolveInputs == {<<S_Fu>>, <<S_Nb, S_nb>>, <<S_Nb, S_NxB>>, <<S_NxB, S_Nb>>}

SeedChoices == {<<>>, << <<S_Fu, 8>> >>, << <<S_Fu, 0>> >>}

InitialCats == {Term(8, S_Fu, <<"f", "u">>)}

notClient == <<slugVars, normVars, uploadVars, pageVars, initVars, tagmapVars,
               strtagVars, matchVars, altVars,
    statusVars, testVars>>

Outcome(kind, name, how, id) == [kind |-> kind, name |-> name, how |-> how, id |-> id]
Request(req, name) == [req |-> req, name |-> name]

\* __init__: the lowercased seed, updated with the bulk fetch when it succeeds
Construct(seed) ==
    /\ c_pc = "new"
    /\ \E fetched \in BOOLEAN :
          categories_map' =
              IF fetched THEN FetchedMap(SearchItems(remote_cats)) @@ LowerKeys(seed)
              ELSE LowerKeys(seed)
    /\ c_pc' = "idle"
    /\ UNCHANGED <<remote_cats, remote_tags, writer_steps, calls, refs_used, c_caller,
                   payload, cleaned_tags, tag_ids, ti, category_ids, cleaned_names,
                   cat_ids, ci, c_outcomes, c_log, c_submitted, c_return, c_creates,
                   c_resolved, c_cache0, notClient>>

\* create_post, the categories branch up to the call of the resolver
BeginCategories(cat_input) ==
    /\ c_pc' = IF cat_input # <<>> THEN "cat_loop" ELSE "submit"
    /\ category_ids' = CategoryIds(cat_input)
    /\ cleaned_names' = CleanedNames(CategoryNames(cat_input))
    /\ cat_ids' = <<>>
    /\ ci' = 1

\* create_post(payload), up to the first remote request
CreatePost(pl) ==
    /\ c_pc = "idle"
    /\ calls < MaxCalls
    /\ refs_used + Len(pl.tags) + Len(pl.categories) <= MaxRefs
    /\ calls' = calls + 1
    /\ refs_used' = refs_used + Len(pl.tags) + Len(pl.categories)
    /\ c_caller' = "create_post"
    /\ c_cache0' = categories_map
    /\ payload' = pl
    /\ c_outcomes' = <<>>
    /\ c_log' = <<>>
    /\ c_submitted' = <<>>
    /\ c_return' = None
    /\ tag_ids' = <<>>
    /\ ti' = 1
    /\ IF pl.tags # <<>>
         THEN /\ cleaned_tags' = CleanedTags(pl.tags, DefaultMaxTags)
              /\ c_pc' = "tag_loop"
              /\ category_ids' = <<>>
              /\ cleaned_names' = <<>>
              /\ cat_ids' = <<>>
              /\ ci' = 1
         ELSE /\ cleaned_tags' = <<>>
              /\ BeginCategories(pl.categories)
    /\ UNCHANGED <<categories_map, remote_cats, remote_tags, writer_steps,
                   c_creates, c_resolved, notClient>>

\* resolve_category_names_to_ids(names) called directly
ResolveCall(names) ==
    /\ c_pc = "idle"
    /\ calls < MaxCalls
    /\ refs_used + Len(names) <= MaxRefs
    /\ calls' = calls + 1
    /\ refs_used' = refs_used + Len(names)
    /\ c_caller' = "resolve"
    /\ c_cache0' = categories_map
    /\ payload' = [tags |-> <<>>, categories |-> MapSeq(names, StrItem)]
    /\ c_outcomes' = <<>>
    /\ c_log' = <<>>
    /\ c_submitted' = <<>>
    /\ c_return' = None
    /\ tag_ids' = <<>>
    /\ ti' = 1
    /\ cleaned_tags' = <<>>
    /\ c_pc' = "cat_loop"
    /\ category_ids' = <<>>
    /\ cleaned_names' = CleanedNames(names)
    /\ cat_ids' = <<>>
    /\ ci' = 1
    /\ UNCHANGED <<categories_map, remote_cats, remote_tags, writer_steps,
                   c_creates, c_resolved, notClient>>

\* mutant: the loop is left at the first entry that does not resolve
LoopNextBreakOnFailure(i, n, id) == IF Truthy(id) THEN i + 1 ELSE n + 1

\* "for ... in ...": the loop goes on to the next entry whatever the outcome of
\* this one (entry i of n, resolved to id or to None)
LoopNext(i, n, id) == i + 1

\* the end of one iteration of the tag loop: a number is appended as it is,
\* a looked-up or created ID under "if tag_id:"
FinishTag(how, id) ==
    /\ tag_ids' = IF how = "numeric" \/ Truthy(id) THEN Append(tag_ids, id[1]) ELSE tag_ids
    /\ ti' = LoopNext(ti, Len(cleaned_tags), id)
    /\ c_pc' = "tag_loop"
    /\ c_outcomes' = Append(c_outcomes, Outcome("tag", cleaned_tags[ti], how, id))
    /\ c_resolved' = c_resolved \cup {Outcome("tag", cleaned_tags[ti], "any", id)}

\* _ensure_tag_ids: an entry that needs no request (a number, or a name of one
\* character, which is dropped)
TagLocal ==
    /\ c_pc = "tag_loop"
    /\ ti <= Len(cleaned_tags)
    /\ LET tag_name == cleaned_tags[ti] IN
       /\ IsDigit(tag_name) \/ Len(tag_name) < 2
       /\ IF IsDigit(tag_name)
            THEN FinishTag("numeric", Some(ParseInt(tag_name)))
            ELSE FinishTag("dropped", None)
    /\ UNCHANGED <<categories_map, remote_cats, remote_tags, writer_steps, calls,
                   refs_used, c_caller, payload, cleaned_tags, category_ids, cleaned_names, cat_ids,
                   ci, c_log, c_submitted, c_return, c_creates, c_cache0, notClient>>

\* _get_existing_tag_id(tag_name), called from the loop: the search request
TagLookup ==
    /\ c_pc = "tag_loop"
    /\ ti <= Len(cleaned_tags)
    /\ LET tag_name == cleaned_tags[ti] IN
       /\ ~IsDigit(tag_name) /\ Len(tag_name) >= 2
       /\ c_log' = Append(c_log, Request("GET /tags", tag_name))
       /\ \E answered \in BOOLEAN :
             LET found == IF answered
                            THEN MatchExisting(SearchItems(remote_tags), tag_name)
                            ELSE None
             IN IF Truthy(found)
                  THEN FinishTag("found", found)
                  ELSE /\ c_pc' = "tag_create"
                       /\ UNCHANGED <<tag_ids, ti, c_outcomes, c_resolved>>
    /\ UNCHANGED <<categories_map, remote_cats, remote_tags, writer_steps, calls,
                   refs_used, c_caller, payload, cleaned_tags, category_ids, cleaned_names, cat_ids,
                   ci, c_submitted, c_return, c_creates, c_cache0, notClient>>

\* _create_tag(tag_name): the creation request
TagCreate ==
    /\ c_pc = "tag_create"
    /\ LET tag_name == cleaned_tags[ti] IN
       /\ c_log' = Append(c_log, Request("POST /tags", tag_name))
       /\ c_creates' = Append(c_creates, Request("tag", tag_name))
       /\ \E answer \in CreateAnswers(remote_tags, tag_name) :
             CASE answer = "created" ->
                    LET id == NextRemoteId(remote_cats, remote_tags) IN
                    /\ remote_tags' = StoreWith(remote_tags, id, tag_name, _slugify(tag_name))
                    /\ FinishTag("created", Some(id))
               [] answer = "term_exists" ->
                    /\ c_pc' = "tag_recover"
                    /\ UNCHANGED <<remote_tags, tag_ids, ti, c_outcomes, c_resolved>>
               [] OTHER ->
                    /\ FinishTag("rejected", None)
                    /\ UNCHANGED remote_tags
    /\ UNCHANGED <<categories_map, remote_cats, writer_steps, calls,
                   refs_used, c_caller, payload, cleaned_tags, category_ids, cleaned_names, cat_ids,
                   ci, c_submitted, c_return, c_cache0, notClient>>

\* _get_existing_tag_id(tag_name), called after term_exists
TagRecover ==
    /\ c_pc = "tag_recover"
    /\ LET tag_name == cleaned_tags[ti] IN
       /\ c_log' = Append(c_log, Request("GET /tags", tag_name))
       /\ \E answered \in BOOLEAN :
             IF answered
               THEN LET found == MatchExisting(SearchItems(remote_tags), tag_name)
                    IN FinishTag(IF found # None THEN "recovered" ELSE "no_match", found)
               ELSE FinishTag("recovery_failed", None)
    /\ UNCHANGED <<categories_map, remote_cats, remote_tags, writer_steps, calls,
                   refs_used, c_caller, payload, cleaned_tags, category_ids, cleaned_names, cat_ids,
                   ci, c_submitted, c_return, c_creates, c_cache0, notClient>>

\* the return of _ensure_tag_ids into create_post, and the categories branch
TagsDone ==
    /\ c_pc = "tag_loop"
    /\ ti > Len(cleaned_tags)
    /\ payload' = [payload EXCEPT !.tags = tag_ids]
    /\ BeginCategories(payload.categories)
    /\ UNCHANGED <<categories_map, remote_cats, remote_tags, writer_steps, calls,
                   refs_used, c_caller, cleaned_tags, tag_ids, ti, c_outcomes, c_log, c_submitted,
                   c_return, c_creates, c_resolved, c_cache0, notClient>>

\* the end of one iteration of the category loop: "if cat_id: cat_ids.append(cat_id)"
FinishCategory(how, id) ==
    /\ cat_ids' = IF Truthy(id) THEN Append(cat_ids, id[1]) ELSE cat_ids
    /\ ci' = LoopNext(ci, Len(cleaned_names), id)
    /\ c_pc' = "cat_loop"
    /\ c_outcomes' = Append(c_outcomes, Outcome("cat", cleaned_names[ci], how, id))
    /\ c_resolved' = c_resolved \cup {Outcome("cat", cleaned_names[ci], "any", id)}

\* mutant: only the lowercased name is written to the cache
CacheWriteNameOnly(map, name, id) ==
    IF Truthy(id) THEN CachePut(map, Lower(name), id[1]) ELSE map

\* "if cat_id:" the two cache writes for a created or recovered category
CacheWrite(map, name, id) ==
    IF Truthy(id)
      THEN CachePut(CachePut(map, Lower(name), id[1]), _slugify(name), id[1])
      ELSE map

\* cat_id = self.categories_map.get(name.lower()) or self.categories_map.get(slug)
CacheLookup(map, name) == Or(CacheGet(map, Lower(name)), CacheGet(map, _slugify(name)))

\* "if not cat_id": the name goes to _create_category
CacheMiss(map, name) == ~Truthy(CacheLookup(map, name))

\* resolve_category_names_to_ids: the cache check of one name
CatExamine ==
    /\ c_pc = "cat_loop"
    /\ ci <= Len(cleaned_names)
    /\ LET name == cleaned_names[ci] IN
       IF CacheMiss(categories_map, name)
         THEN /\ c_pc' = "cat_create"
              /\ UNCHANGED <<cat_ids, ci, c_outcomes, c_resolved>>
         ELSE FinishCategory("cached", CacheLookup(categories_map, name))
    /\ UNCHANGED <<categories_map, remote_cats, remote_tags, writer_steps, calls,
                   refs_used, c_caller, payload, cleaned_tags, tag_ids, ti, category_ids,
                   cleaned_names, c_log, c_submitted, c_return, c_creates, c_cache0, notClient>>

\* _create_category(name): the creation request
CatCreate ==
    /\ c_pc = "cat_create"
    /\ LET name == cleaned_names[ci] IN
       /\ c_log' = Append(c_log, Request("POST /categories", name))
       /\ c_creates' = Append(c_creates, Request("cat", name))
       /\ \E answer \in CreateAnswers(remote_cats, name) :
             CASE answer = "created" ->
                    LET id == NextRemoteId(remote_cats, remote_tags) IN
                    /\ remote_cats' = StoreWith(remote_cats, id, name, _slugify(name))
                    /\ categories_map' = CacheWrite(categories_map, name, Some(id))
                    /\ FinishCategory("created", Some(id))
               [] answer = "term_exists" ->
                    /\ c_pc' = "cat_recover"
                    /\ UNCHANGED <<remote_cats, categories_map, cat_ids, ci, c_outcomes,
                                   c_resolved>>
               [] OTHER ->
                    /\ FinishCategory("rejected", None)
                    /\ UNCHANGED <<remote_cats, categories_map>>
    /\ UNCHANGED <<remote_tags, writer_steps, calls, refs_used, c_caller, payload,
                   cleaned_tags, tag_ids, ti, category_ids, cleaned_names,
                   c_submitted, c_return, c_cache0, notClient>>

\* _get_existing_category_id(name), called after term_exists
CatRecover ==
    /\ c_pc = "cat_recover"
    /\ LET name == cleaned_names[ci] IN
       /\ c_log' = Append(c_log, Request("GET /categories", name))
       /\ \E answered \in BOOLEAN :
             IF answered
               THEN LET found == MatchExisting(SearchItems(remote_cats), name) IN
                    /\ categories_map' = CacheWrite(categories_map, name, found)
                    /\ FinishCategory(IF found # None THEN "recovered" ELSE "no_match", found)
               ELSE /\ FinishCategory("recovery_failed", None)
                    /\ UNCHANGED categories_map
    /\ UNCHANGED <<remote_cats, remote_tags, writer_steps, calls, refs_used, c_caller,
                   payload, cleaned_tags, tag_ids, ti, category_ids, cleaned_names,
                   c_submitted, c_return, c_creates, c_cache0, notClient>>

\* the return of resolve_category_names_to_ids: final_ids = list(set(cat_ids)),
\* and in create_post payload['categories'] = list(set(category_ids))
CatsDone ==
    /\ c_pc = "cat_loop"
    /\ ci > Len(cleaned_names)
    /\ IF c_caller = "resolve"
         THEN /\ c_return' = ListOfSet(cat_ids)
              /\ c_pc' = "idle"
              /\ UNCHANGED payload
         ELSE /\ payload' = [payload EXCEPT
                                !.categories =
                                    ListOfSet(category_ids \o ListOfSet(cat_ids))]
              /\ c_pc' = "submit"
              /\ UNCHANGED c_return
    /\ UNCHANGED <<categories_map, remote_cats, remote_tags, writer_steps, calls,
                   refs_used, c_caller, cleaned_tags, tag_ids, ti, category_ids, cleaned_names,
                   cat_ids, ci, c_outcomes, c_log, c_submitted, c_creates, c_resolved,
                   c_cache0, notClient>>

\* the answers the post submission can get
SubmitAnswers == {"ok", "http_error", "network_failure"}

\* mutant: the ID is returned whatever the answer
PostResultAlwaysId(answer, id) == Some(id)

\* what create_post returns for an answer: response.json().get('id'), or None
\* from the except branch
PostResult(answer, id) == IF answer = "ok" THEN Some(id) ELSE None

\* mutant: a submission that failed is made again
AfterSubmitRetries(answer) == IF answer = "ok" THEN "idle" ELSE "submit"

\* after the one session.post of create_post the call returns, whatever the
\* answer: the ID, or None from the except branch
AfterSubmit(answer) == "idle"

\* create_post: the submission of the payload and the return
Submit ==
    /\ c_pc = "submit"
    /\ \E answer \in SubmitAnswers :
          /\ c_submitted' = Append(c_submitted, [payload |-> payload, answer |-> answer])
          /\ c_return' = PostResult(answer, PostId(calls))
          /\ c_pc' = AfterSubmit(answer)
    /\ c_log' = Append(c_log, Request("POST /posts", <<>>))
    /\ UNCHANGED <<categories_map, remote_cats, remote_tags, writer_steps, calls,
                   refs_used, c_caller, payload, cleaned_tags, tag_ids, ti, category_ids,
                   cleaned_names, cat_ids, ci, c_outcomes, c_creates, c_resolved,
                   c_cache0, notClient>>

\* another writer (a person, another process) adds a term to the remote store
WriterNames == {S_NB, S_MA}
WriterCreates(kind, name) ==
    /\ c_pc # "new"
    /\ writer_steps < MaxWriterSteps
    /\ writer_steps' = writer_steps + 1
    /\ LET id == NextRemoteId(remote_cats, remote_tags) IN
       IF kind = "cat"
         THEN /\ ~TermExists(remote_cats, name)
              /\ remote_cats' = StoreWith(remote_cats, id, name, _slugify(name))
              /\ UNCHANGED remote_tags
         ELSE /\ ~TermExists(remote_tags, name)
              /\ remote_tags' = StoreWith(remote_tags, id, name, _slugify(name))
              /\ UNCHANGED remote_cats
    /\ UNCHANGED <<c_pc, categories_map, calls, refs_used, c_caller, payload, cleaned_tags,
                   tag_ids, ti, category_ids, cleaned_names, cat_ids, ci, c_outcomes,
                   c_log, c_submitted, c_return, c_creates, c_resolved, c_cache0, notClient>>

(***************************************************************************)
(* __init__: the base URL, the seed, and the bulk fetch of                 *)
(* _fetch_all_categories, one action per page request                      *)
(***************************************************************************)
\* '/wp-json/wp/v2'
RestPath == <<"/", "w", "p", "-", "j", "s", "o", "n", "/", "w", "p", "/", "v", "2">>

\* sub in s
Contains(s, sub) ==
    \E i \in 1..(Len(s) - Len(sub) + 1) : SubSeq(s, i, i + Len(sub) - 1) = sub

\* s.rstrip(cs)
RStrip(s, cs) ==
    LET keep == {i \in 1..Len(s) : s[i] \notin cs}
    IN IF keep = {} THEN <<>> ELSE SubSeq(s, 1, MaxOf(keep))

\* (config.get('url') or "").rstrip('/')
BaseUrl(url) == RStrip(IF url = None THEN <<>> ELSE url[1], {"/"})

\* mutant: the REST path is appended to every base URL
ApiUrlAlwaysAppends(base_url) == base_url \o RestPath

\* self.api_url
ApiUrl(base_url) == IF Contains(base_url, RestPath) THEN base_url ELSE base_url \o RestPath

\* the site of the configurations tried
Site == <<"h">>

\* config['url']: missing, empty, only slashes, a site with or without the REST
\* path, with a trailing slash, with a longer path, with a part of the REST path
UrlChoices ==
    {None, Some(<<>>), Some(<<"/">>), Some(Site), Some(Site \o <<"/">>),
     Some(Site \o RestPath), Some(Site \o RestPath \o <<"/">>),
     Some(Site \o RestPath \o <<"/", "x">>), Some(Site \o <<"/", "w", "p">>)}

\* the k-th category of the remote, in the order of the listing
RemoteCat(k) == Term(k, <<"C", " ">> \o NatToStr(k), <<"c", "-">> \o NatToStr(k))

\* the categories of page p of a remote that holds avail categories
RemoteCatPage(avail, p) == MapSeq(RemotePage(avail, p), RemoteCat)

\* seeds: empty, a name the remote does not hold, a name the remote holds
\* under another ID, two spellings of one key
InitSeedChoices ==
    {<<>>, << <<S_Fu, 8>> >>, << <<<<"C", " ", "1">>, 9>>, <<S_Fu, 8>> >>,
     << <<S_Nb, 5>>, <<S_NB, 6>> >>}

notInit == <<slugVars, normVars, uploadVars, pageVars, clientVars, tagmapVars,
             strtagVars, matchVars, altVars,
    statusVars, testVars>>

\* __init__ up to the call of _fetch_all_categories: ValueError when the base
\* URL is empty, else api_url and the lowercased seed
ClientInit ==
    /\ in_pc = "new"
    /\ LET base_url == BaseUrl(in_url) IN
       IF base_url = <<>>
         THEN /\ in_pc' = "raised"
              /\ UNCHANGED <<in_api_url, in_map>>
         ELSE /\ in_api_url' = ApiUrl(base_url)
              /\ in_map' = LowerKeys(in_seed)
              /\ in_pc' = "fetch"
    /\ UNCHANGED <<in_url, in_seed, in_avail, in_page, in_all, in_requests, in_failed,
                   notInit>>

\* mutant: the seed is applied over the fetched map
UpdateKeepsSeed(map, fetched) == map @@ fetched

\* self.categories_map.update(fetched)
Update(map, fetched) == fetched @@ map

\* the return of _fetch_all_categories into __init__ and the end of __init__
FetchReturn(all_categories) ==
    /\ in_map' = Update(in_map, all_categories)
    /\ in_pc' = "ready"

\* mutant: a failed page request discards what the earlier pages gave
FetchRequestFailsDiscards ==
    /\ in_pc = "fetch"
    /\ in_requests' = Append(in_requests, [page |-> in_page, ok |-> FALSE])
    /\ in_failed' = TRUE
    /\ in_all' = <<>>
    /\ FetchReturn(<<>>)
    /\ UNCHANGED <<in_url, in_seed, in_api_url, in_avail, in_page, notInit>>

\* one page request that fails (requests.RequestException): break
FetchRequestFails ==
    /\ in_pc = "fetch"
    /\ in_requests' = Append(in_requests, [page |-> in_page, ok |-> FALSE])
    /\ in_failed' = TRUE
    /\ FetchReturn(in_all)
    /\ UNCHANGED <<in_url, in_seed, in_api_url, in_avail, in_page, in_all, notInit>>

\* one page request that succeeds
FetchRequestOk ==
    /\ in_pc = "fetch"
    /\ in_requests' = Append(in_requests, [page |-> in_page, ok |-> TRUE])
    /\ \E categories \in {RemoteCatPage(in_avail, in_page)} :
       \E all_categories \in {FetchedMap(categories) @@ in_all} :
          IF categories = <<>>
            THEN /\ FetchReturn(in_all)
                 /\ UNCHANGED <<in_all, in_page>>
            ELSE IF Len(categories) < PerPage
            THEN /\ in_all' = all_categories
                 /\ FetchReturn(all_categories)
                 /\ UNCHANGED in_page
            ELSE /\ in_all' = all_categories
                 /\ in_page' = in_page + 1
                 /\ UNCHANGED <<in_pc, in_map>>
    /\ UNCHANGED <<in_url, in_seed, in_api_url, in_avail, in_failed, notInit>>

(***************************************************************************)
(* get_tags_map_by_ids: one action per chunk request                       *)
(***************************************************************************)
\* the chunk size of range(0, len(unique_ids), 100)
ChunkSize == 100

\* the tag IDs the remote does not hold: a request that includes them is
\* answered without them
MissingTagIds == {3}

\* the name the remote holds for a tag ID
RemoteTagName(id) == <<"t">> \o NatToStr(id)

\* unique_ids = list(set(tag_ids)): the distinct IDs in the order of the set
UniqueIds(ids) == ListOfSet(ids)

\* tag_ids: the IDs 1..n in order, the same with the first two IDs given
\* again at the end, and lists whose set is not iterated in ascending order
TagIdCounts == {f * ChunkSize + r : f \in 0..MaxFullPages, r \in {0, 1, 37}}
TagIdInputs ==
    {[i \in 1..n |-> i] : n \in TagIdCounts}
        \cup {[i \in 1..(n + 2) |-> IF i <= n THEN i ELSE i - n] : n \in TagIdCounts \ {0, 1}}
        \cup {<<7, 37, 7>>, <<100, 101, 7>>, [i \in 1..(ChunkSize + 1) |-> 8 * i]}

notTagMap == <<slugVars, normVars, uploadVars, pageVars, clientVars, initVars,
               strtagVars, matchVars, altVars,
    statusVars, testVars>>

\* entry: {} for an empty list, else unique_ids
TagMapCall ==
    /\ tm_pc = "call"
    /\ IF tm_ids = <<>>
         THEN /\ tm_pc' = "done"
              /\ UNCHANGED tm_unique
         ELSE /\ tm_unique' = UniqueIds(tm_ids)
              /\ tm_pc' = "loop"
    /\ UNCHANGED <<tm_ids, tm_i, tm_requests, tm_map, notTagMap>>

\* mutant: a failed chunk request ends the loop
NextChunkStopsOnFailure(i, ok, n) == IF ok THEN i + ChunkSize ELSE n

\* the start of the next chunk; "continue" after a failed request goes on
\* with the next chunk as well
NextChunk(i, ok, n) == i + ChunkSize

\* one iteration of the for loop: the request for one chunk of IDs
TagMapChunk ==
    /\ tm_pc = "loop"
    /\ tm_i < Len(tm_unique)
    /\ LET last == IF tm_i + ChunkSize < Len(tm_unique)
                     THEN tm_i + ChunkSize ELSE Len(tm_unique)
           chunk == SubSeq(tm_unique, tm_i + 1, last)
           tags_data == SelectSeq(chunk, LAMBDA id : id \notin MissingTagIds)
       IN \E ok \in BOOLEAN :
             /\ tm_requests' = Append(tm_requests,
                                      [first |-> tm_i, size |-> Len(chunk), ok |-> ok])
             /\ tm_map' = IF ok
                            THEN [id \in Range(tags_data) |-> RemoteTagName(id)] @@ tm_map
                            ELSE tm_map
             /\ tm_i' = NextChunk(tm_i, ok, Len(tm_unique))
             /\ tm_pc' = IF NextChunk(tm_i, ok, Len(tm_unique)) < Len(tm_unique)
                           THEN "loop" ELSE "done"
    /\ UNCHANGED <<tm_ids, tm_unique, notTagMap>>

(***************************************************************************)
(* create_post with the tags field given as one string                     *)
(***************************************************************************)
\* longest generated tags string
MaxStrTagLen == 4

StrTagChars == {"M", "a", ",", "2", " "}

\* the strings of at most MaxStrTagLen characters
StrTagInputs == UNION {[1..n -> StrTagChars] : n \in 0..MaxStrTagLen}

\* `for t in tags` over a str: one item per character
CharItems(str) == [i \in 1..Len(str) |-> StrItem(<<str[i]>>)]

notStrTag == <<slugVars, normVars, uploadVars, pageVars, clientVars, initVars,
               tagmapVars, matchVars, altVars,
    statusVars, testVars>>

\* create_post hands payload['tags'] to _ensure_tag_ids as it is; an empty
\* string is falsy and skips the call
EnsureTagIdsOfStr ==
    /\ ts_pc = "call"
    /\ ts_cleaned' = IF ts_tags = <<>> THEN <<>>
                     ELSE CleanedTags(CharItems(ts_tags), DefaultMaxTags)
    /\ ts_pc' = "done"
    /\ UNCHANGED <<ts_tags, notStrTag>>

(***************************************************************************)
(* The recovery query on its own: _get_existing_category_id and            *)
(* _get_existing_tag_id against any search result                          *)
(***************************************************************************)
\* longest generated search result
MaxSearchItems == 2

\* terms a broad search can return: the term itself, another spelling under
\* another slug, another name under the same slug, and near-matches
SearchTerms ==
    { Term(1, S_Nb, <<"n", "b">>),
      Term(2, S_nb, <<"n", "b", "-", "2">>),
      Term(3, S_NxB, <<"n", "b">>),
      Term(4, <<"N", "b", "u">>, <<"n", "b", "u">>),
      Term(5, S_Fu, <<"f", "u">>) }

SearchResults == SeqsUpTo(SearchTerms, MaxSearchItems)

SearchNames == {S_Nb, S_nb, S_NxB, S_Fu, S_NB}

notMatch == <<slugVars, normVars, uploadVars, pageVars, clientVars, initVars,
              tagmapVars, strtagVars, altVars,
    statusVars, testVars>>

\* the search request and the verification of its result; a failed request
\* (RequestException) falls through to "return None"
GetExistingId ==
    /\ mt_pc = "call"
    /\ \E answered \in BOOLEAN :
          mt_result' = IF answered THEN MatchExisting(mt_items, mt_name) ELSE None
    /\ mt_pc' = "done"
    /\ UNCHANGED <<mt_items, mt_name, notMatch>>

(***************************************************************************)
(* create_post on a payload whose taxonomy fields hold IDs only: the       *)
(* status default and the submission                                       *)
(***************************************************************************)
\* the values a caller gives the status field ("null" is Python's None)
StatusValues == {"draft", "publish", "private", "pending", "future", "", "null"}

\* the status field of the caller's payload: absent, or one of the values
StatusChoices == {None} \cup {Some(v) : v \in StatusValues}

\* taxonomy fields that need no remote request
IdTagChoices == {<<>>, <<IntItem(2)>>, <<IntItem(2), StrItem(<<"1", "2">>)>>}
IdCatChoices ==
    {<<>>, <<IntItem(8)>>, <<StrItem(<<"8">>), IntItem(8), IntItem(9)>>,
     <<IntItem(1), IntItem(16)>>}

IdPayloads == [tags : IdTagChoices, categories : IdCatChoices, status : StatusChoices]

\* mutant: the status is set to the default whatever the caller gave
SetDefaultOverwrites(field, default) == Some(default)

\* dict.setdefault(key, default): the default only when the key is absent
SetDefault(field, default) == IF field = None THEN Some(default) ELSE field

notStatus == <<slugVars, normVars, uploadVars, pageVars, clientVars, initVars,
               tagmapVars, strtagVars, matchVars, altVars, testVars>>

\* create_post up to the submission: numeric tags and categories become
\* integer lists, payload.setdefault('status', 'publish')
StatusPrepare ==
    /\ st_pc = "call"
    /\ st_payload' =
          [tags |-> IF st_given.tags = <<>> THEN <<>>
                    ELSE MapSeq(CleanedTags(st_given.tags, DefaultMaxTags), ParseInt),
           categories |-> IF st_given.categories = <<>> THEN <<>>
                          ELSE ListOfSet(CategoryIds(st_given.categories)),
           status |-> SetDefault(st_given.status, "publish")]
    /\ st_pc' = "submit"
    /\ UNCHANGED <<st_given, st_submitted, st_return, notStatus>>

\* the submission of the payload and the return
StatusSubmit ==
    /\ st_pc = "submit"
    /\ \E answer \in SubmitAnswers :
          /\ st_submitted' = Append(st_submitted, [payload |-> st_payload, answer |-> answer])
          /\ st_return' = PostResult(answer, PostId(1))
    /\ st_pc' = "done"
    /\ UNCHANGED <<st_given, st_payload, notStatus>>

(***************************************************************************)
(* test_category_creation, run by main() of test_wordpress_connection.py   *)
(* on a client it has just constructed                                     *)
(***************************************************************************)
\* the IDs the remote can give the test category, and the ID of a category
\* that already has its name
NewTestIds == {21, 22}
ExistingTestIds == {8}

\* what the call of _create_category can meet: the creation accepted with an
\* ID; rejected with term_exists and the re-query answered with the existing
\* ID, answered without it, or failed; another failure of the request; or a
\* 2xx body without an 'id' (KeyError, which is not a RequestException)
TestCreateAnswers ==
    {[kind |-> "created", id |-> Some(i)] : i \in NewTestIds}
        \cup {[kind |-> "recovered", id |-> Some(i)] : i \in ExistingTestIds}
        \cup {[kind |-> k, id |-> None] : k \in {"no_match", "recovery_failed", "error", "raises"}}

\* the requests _create_category issues for an answer
TestCreateRequests(a) ==
    <<[req |-> "POST /categories", id |-> None,
       answer |-> CASE a.kind = "created" -> "created"
                    [] a.kind \in {"error", "raises"} -> a.kind
                    [] OTHER -> "term_exists"]>>
        \o (IF a.kind \in {"recovered", "no_match", "recovery_failed"}
              THEN <<[req |-> "GET /categories", id |-> None, answer |-> a.kind]>>
              ELSE <<>>)

\* the answers of the deletion request: 200 with "deleted": true, 200 without
\* it, an HTTP error status, a network failure
TestDeleteAnswers == {"deleted", "not_deleted", "http_error", "network_failure"}

\* mutant: any answered deletion counts as a success
DeleteSucceededAnyAnswer(answer) == answer \in {"deleted", "not_deleted"}

\* r.status_code == 200 and r.json().get('deleted')
DeleteSucceeded(answer) == answer = "deleted"

\* what main() constructs the client with
TestAvail == {0, 37}

notTest == <<slugVars, normVars, uploadVars, pageVars, clientVars, initVars,
             tagmapVars, strtagVars, matchVars, altVars, statusVars>>

\* step 1: test_cat_id = self._create_category(test_cat_name); without an ID,
\* or with an exception, the test returns (False, msg)
TestCreate ==
    /\ in_pc = "ready"
    /\ tc_pc = "idle"
    /\ \E a \in TestCreateAnswers :
          /\ tc_requests' = tc_requests \o TestCreateRequests(a)
          /\ tc_cat_id' = a.id
          /\ IF Truthy(a.id)
               THEN /\ tc_pc' = "delete"
                    /\ UNCHANGED tc_result
               ELSE /\ tc_pc' = "done"
                    /\ tc_result' = "failure"
    /\ UNCHANGED notTest

\* step 2: the deletion of the category of step 1 and the verdict
TestDelete ==
    /\ tc_pc = "delete"
    /\ \E answer \in TestDeleteAnswers :
          /\ tc_requests' = Append(tc_requests,
                                   [req |-> "DELETE /categories", id |-> tc_cat_id,
                                    answer |-> answer])
          /\ tc_result' = IF DeleteSucceeded(answer) THEN "success" ELSE "failure"
    /\ tc_pc' = "done"
    /\ UNCHANGED <<tc_cat_id, notTest>>

(***************************************************************************)
(* Specifications                                                          *)
(***************************************************************************)
\* the client: construction, then calls of create_post and of the resolver,
\* with another writer adding terms to the remote store
Init ==
    /\ sl_pc = "idle" /\ sl_name = <<>> /\ sl_once = <<>> /\ sl_twice = <<>>
    /\ nm_pc = "idle" /\ nm_tags = <<>> /\ nm_max = 0 /\ nm_cleaned = <<>>
    /\ up_pc = "idle" /\ up_max_attempts = 0 /\ up_attempt = 0
    /\ up_outcomes = <<>> /\ up_sleeps = <<>> /\ up_result = None
    /\ pg_pc = "idle" /\ pg_avail = 0 /\ pg_max_posts = None /\ pg_all_posts = <<>>
    /\ pg_page = 1 /\ pg_requests = <<>> /\ pg_failed = FALSE
    /\ c_pc = "new"
    /\ categories_map = <<>>
    /\ remote_cats = InitialCats
    /\ remote_tags = {}
    /\ writer_steps = 0
    /\ calls = 0
    /\ refs_used = 0
    /\ c_caller = "none"
    /\ payload = [tags |-> <<>>, categories |-> <<>>]
    /\ cleaned_tags = <<>> /\ tag_ids = <<>> /\ ti = 1
    /\ category_ids = <<>> /\ cleaned_names = <<>> /\ cat_ids = <<>> /\ ci = 1
    /\ c_outcomes = <<>> /\ c_log = <<>> /\ c_submitted = <<>> /\ c_return = None
    /\ c_creates = <<>> /\ c_resolved = {} /\ c_cache0 = <<>>
    /\ in_pc = "idle" /\ in_url = None /\ in_seed = <<>> /\ in_api_url = <<>>
    /\ in_avail = 0 /\ in_page = 1 /\ in_all = <<>> /\ in_requests = <<>>
    /\ in_failed = FALSE /\ in_map = <<>>
    /\ tm_pc = "idle" /\ tm_ids = <<>> /\ tm_unique = <<>> /\ tm_i = 0
    /\ tm_requests = <<>> /\ tm_map = <<>>
    /\ ts_pc = "idle" /\ ts_tags = <<>> /\ ts_cleaned = <<>>
    /\ mt_pc = "idle" /\ mt_items = <<>> /\ mt_name = <<>> /\ mt_result = None
    /\ al_pc = "idle" /\ al_text = <<>> /\ al_requests = <<>> /\ al_result = "none"
    /\ st_pc = "idle" /\ st_given = <<>> /\ st_payload = <<>> /\ st_submitted = <<>> /\ st_return = None
    /\ tc_pc = "idle" /\ tc_cat_id = None /\ tc_requests = <<>> /\ tc_result = "none"

Next ==
    \/ \E seed \in SeedChoices : Construct(seed)
    \/ \E pl \in Payloads : CreatePost(pl)
    \/ \E names \in ResolveInputs : ResolveCall(names)
    \/ TagLocal
    \/ TagLookup
    \/ TagCreate
    \/ TagRecover
    \/ TagsDone
    \/ CatExamine
    \/ CatCreate
    \/ CatRecover
    \/ CatsDone
    \/ Submit
    \/ \E name \in WriterNames : WriterCreates(IF name = S_NB THEN "cat" ELSE "tag", name)

Spec == Init /\ [][Next]_vars

\* tag references with names of one character, alone and as sub-names
ShortTagRefs == {StrItem(<<"a">>), StrItem(<<"a", ",", "b">>), StrItem(S_Ma), IntItem(2)}

ShortTagPayloads ==
    {[tags |-> tags, categories |-> <<>>] : tags \in SeqsUpTo(ShortTagRefs, MaxRefs) \ {<<>>}}

\* create_post on payloads of tags only, some of them one character long
ShortTagNext ==
    \/ \E seed \in SeedChoices : Construct(seed)
    \/ \E pl \in ShortTagPayloads : CreatePost(pl)
    \/ TagLocal
    \/ TagLookup
    \/ TagCreate
    \/ TagRecover
    \/ TagsDone
    \/ Submit
    \/ WriterCreates("tag", S_MA)

ShortTagSpec == Init /\ [][ShortTagNext]_vars

\* _slugify applied to a name, then to its own result
SlugInit ==
    /\ sl_pc = "input" /\ sl_name \in SlugInputs /\ sl_once = <<>> /\ sl_twice = <<>>
    /\ nm_pc = "idle" /\ nm_tags = <<>> /\ nm_max = 0 /\ nm_cleaned = <<>>
    /\ up_pc = "idle" /\ up_max_attempts = 0 /\ up_attempt = 0
    /\ up_outcomes = <<>> /\ up_sleeps = <<>> /\ up_result = None
    /\ pg_pc = "idle" /\ pg_avail = 0 /\ pg_max_posts = None /\ pg_all_posts = <<>>
    /\ pg_page = 1 /\ pg_requests = <<>> /\ pg_failed = FALSE
    /\ c_pc = "unused" /\ categories_map = <<>>
    /\ remote_cats = {} /\ remote_tags = {} /\ writer_steps = 0 /\ calls = 0
    /\ refs_used = 0 /\ c_caller = "none"
    /\ payload = [tags |-> <<>>, categories |-> <<>>]
    /\ cleaned_tags = <<>> /\ tag_ids = <<>> /\ ti = 1
    /\ category_ids = <<>> /\ cleaned_names = <<>> /\ cat_ids = <<>> /\ ci = 1
    /\ c_outcomes = <<>> /\ c_log = <<>> /\ c_submitted = <<>> /\ c_return = None
    /\ c_creates = <<>> /\ c_resolved = {} /\ c_cache0 = <<>>
    /\ in_pc = "idle" /\ in_url = None /\ in_seed = <<>> /\ in_api_url = <<>>
    /\ in_avail = 0 /\ in_page = 1 /\ in_all = <<>> /\ in_requests = <<>>
    /\ in_failed = FALSE /\ in_map = <<>>
    /\ tm_pc = "idle" /\ tm_ids = <<>> /\ tm_unique = <<>> /\ tm_i = 0
    /\ tm_requests = <<>> /\ tm_map = <<>>
    /\ ts_pc = "idle" /\ ts_tags = <<>> /\ ts_cleaned = <<>>
    /\ mt_pc = "idle" /\ mt_items = <<>> /\ mt_name = <<>> /\ mt_result = None
    /\ al_pc = "idle" /\ al_text = <<>> /\ al_requests = <<>> /\ al_result = "none"
    /\ st_pc = "idle" /\ st_given = <<>> /\ st_payload = <<>> /\ st_submitted = <<>> /\ st_return = None
    /\ tc_pc = "idle" /\ tc_cat_id = None /\ tc_requests = <<>> /\ tc_result = "none"

SlugNext == SlugifyOnce \/ SlugifyTwice

SlugSpec == SlugInit /\ [][SlugNext]_vars

\* the normalisation of _ensure_tag_ids applied to a tag list
NormInit ==
    /\ sl_pc = "idle" /\ sl_name = <<>> /\ sl_once = <<>> /\ sl_twice = <<>>
    /\ nm_pc = "input" /\ nm_tags \in NormInputs /\ nm_max \in MaxTagsChoices
    /\ nm_cleaned = <<>>
    /\ up_pc = "idle" /\ up_max_attempts = 0 /\ up_attempt = 0
    /\ up_outcomes = <<>> /\ up_sleeps = <<>> /\ up_result = None
    /\ pg_pc = "idle" /\ pg_avail = 0 /\ pg_max_posts = None /\ pg_all_posts = <<>>
    /\ pg_page = 1 /\ pg_requests = <<>> /\ pg_failed = FALSE
    /\ c_pc = "unused" /\ categories_map = <<>>
    /\ remote_cats = {} /\ remote_tags = {} /\ writer_steps = 0 /\ calls = 0
    /\ refs_used = 0 /\ c_caller = "none"
    /\ payload = [tags |-> <<>>, categories |-> <<>>]
    /\ cleaned_tags = <<>> /\ tag_ids = <<>> /\ ti = 1
    /\ category_ids = <<>> /\ cleaned_names = <<>> /\ cat_ids = <<>> /\ ci = 1
    /\ c_outcomes = <<>> /\ c_log = <<>> /\ c_submitted = <<>> /\ c_return = None
    /\ c_creates = <<>> /\ c_resolved = {} /\ c_cache0 = <<>>
    /\ in_pc = "idle" /\ in_url = None /\ in_seed = <<>> /\ in_api_url = <<>>
    /\ in_avail = 0 /\ in_page = 1 /\ in_all = <<>> /\ in_requests = <<>>
    /\ in_failed = FALSE /\ in_map = <<>>
    /\ tm_pc = "idle" /\ tm_ids = <<>> /\ tm_unique = <<>> /\ tm_i = 0
    /\ tm_requests = <<>> /\ tm_map = <<>>
    /\ ts_pc = "idle" /\ ts_tags = <<>> /\ ts_cleaned = <<>>
    /\ mt_pc = "idle" /\ mt_items = <<>> /\ mt_name = <<>> /\ mt_result = None
    /\ al_pc = "idle" /\ al_text = <<>> /\ al_requests = <<>> /\ al_result = "none"
    /\ st_pc = "idle" /\ st_given = <<>> /\ st_payload = <<>> /\ st_submitted = <<>> /\ st_return = None
    /\ tc_pc = "idle" /\ tc_cat_id = None /\ tc_requests = <<>> /\ tc_result = "none"

NormNext == NormalizeTags

NormSpec == NormInit /\ [][NormNext]_vars

\* one call of upload_media_from_url(image_url, alt_text, max_attempts), and a
\* call of set_media_alt_text on its attachment
UploadInit ==
    /\ sl_pc = "idle" /\ sl_name = <<>> /\ sl_once = <<>> /\ sl_twice = <<>>
    /\ nm_pc = "idle" /\ nm_tags = <<>> /\ nm_max = 0 /\ nm_cleaned = <<>>
    /\ up_pc = "call" /\ up_max_attempts \in 0..MaxAttemptsArg /\ up_attempt = 0
    /\ up_outcomes = <<>> /\ up_sleeps = <<>> /\ up_result = None
    /\ pg_pc = "idle" /\ pg_avail = 0 /\ pg_max_posts = None /\ pg_all_posts = <<>>
    /\ pg_page = 1 /\ pg_requests = <<>> /\ pg_failed = FALSE
    /\ c_pc = "unused" /\ categories_map = <<>>
    /\ remote_cats = {} /\ remote_tags = {} /\ writer_steps = 0 /\ calls = 0
    /\ refs_used = 0 /\ c_caller = "none"
    /\ payload = [tags |-> <<>>, categories |-> <<>>]
    /\ cleaned_tags = <<>> /\ tag_ids = <<>> /\ ti = 1
    /\ category_ids = <<>> /\ cleaned_names = <<>> /\ cat_ids = <<>> /\ ci = 1
    /\ c_outcomes = <<>> /\ c_log = <<>> /\ c_submitted = <<>> /\ c_return = None
    /\ c_creates = <<>> /\ c_resolved = {} /\ c_cache0 = <<>>
    /\ in_pc = "idle" /\ in_url = None /\ in_seed = <<>> /\ in_api_url = <<>>
    /\ in_avail = 0 /\ in_page = 1 /\ in_all = <<>> /\ in_requests = <<>>
    /\ in_failed = FALSE /\ in_map = <<>>
    /\ tm_pc = "idle" /\ tm_ids = <<>> /\ tm_unique = <<>> /\ tm_i = 0
    /\ tm_requests = <<>> /\ tm_map = <<>>
    /\ ts_pc = "idle" /\ ts_tags = <<>> /\ ts_cleaned = <<>>
    /\ mt_pc = "idle" /\ mt_items = <<>> /\ mt_name = <<>> /\ mt_result = None
    /\ al_pc = "idle" /\ al_text \in AltChoices /\ al_requests = <<>> /\ al_result = "none"
    /\ st_pc = "idle" /\ st_given = <<>> /\ st_payload = <<>> /\ st_submitted = <<>> /\ st_return = None
    /\ tc_pc = "idle" /\ tc_cat_id = None /\ tc_requests = <<>> /\ tc_result = "none"

UploadNext == UploadCall \/ UploadAttempt \/ SetMediaAltText

UploadSpec == UploadInit /\ [][UploadNext]_vars

\* one call of get_published_posts
PageInit ==
    /\ sl_pc = "idle" /\ sl_name = <<>> /\ sl_once = <<>> /\ sl_twice = <<>>
    /\ nm_pc = "idle" /\ nm_tags = <<>> /\ nm_max = 0 /\ nm_cleaned = <<>>
    /\ up_pc = "idle" /\ up_max_attempts = 0 /\ up_attempt = 0
    /\ up_outcomes = <<>> /\ up_sleeps = <<>> /\ up_result = None
    /\ pg_pc = "loop" /\ pg_avail \in AvailChoices /\ pg_max_posts \in MaxPostsChoices
    /\ pg_all_posts = <<>> /\ pg_page = 1 /\ pg_requests = <<>> /\ pg_failed = FALSE
    /\ c_pc = "unused" /\ categories_map = <<>>
    /\ remote_cats = {} /\ remote_tags = {} /\ writer_steps = 0 /\ calls = 0
    /\ refs_used = 0 /\ c_caller = "none"
    /\ payload = [tags |-> <<>>, categories |-> <<>>]
    /\ cleaned_tags = <<>> /\ tag_ids = <<>> /\ ti = 1
    /\ category_ids = <<>> /\ cleaned_names = <<>> /\ cat_ids = <<>> /\ ci = 1
    /\ c_outcomes = <<>> /\ c_log = <<>> /\ c_submitted = <<>> /\ c_return = None
    /\ c_creates = <<>> /\ c_resolved = {} /\ c_cache0 = <<>>
    /\ in_pc = "idle" /\ in_url = None /\ in_seed = <<>> /\ in_api_url = <<>>
    /\ in_avail = 0 /\ in_page = 1 /\ in_all = <<>> /\ in_requests = <<>>
    /\ in_failed = FALSE /\ in_map = <<>>
    /\ tm_pc = "idle" /\ tm_ids = <<>> /\ tm_unique = <<>> /\ tm_i = 0
    /\ tm_requests = <<>> /\ tm_map = <<>>
    /\ ts_pc = "idle" /\ ts_tags = <<>> /\ ts_cleaned = <<>>
    /\ mt_pc = "idle" /\ mt_items = <<>> /\ mt_name = <<>> /\ mt_result = None
    /\ al_pc = "idle" /\ al_text = <<>> /\ al_requests = <<>> /\ al_result = "none"
    /\ st_pc = "idle" /\ st_given = <<>> /\ st_payload = <<>> /\ st_submitted = <<>> /\ st_return = None
    /\ tc_pc = "idle" /\ tc_cat_id = None /\ tc_requests = <<>> /\ tc_result = "none"

PageNext == PageLimitBreak \/ PageRequestFails \/ PageRequestOk

PageSpec == PageInit /\ [][PageNext]_vars

\* the construction of a client: __init__ with its bulk fetch
ConstructInit ==
    /\ sl_pc = "idle" /\ sl_name = <<>> /\ sl_once = <<>> /\ sl_twice = <<>>
    /\ nm_pc = "idle" /\ nm_tags = <<>> /\ nm_max = 0 /\ nm_cleaned = <<>>
    /\ up_pc = "idle" /\ up_max_attempts = 0 /\ up_attempt = 0
    /\ up_outcomes = <<>> /\ up_sleeps = <<>> /\ up_result = None
    /\ pg_pc = "idle" /\ pg_avail = 0 /\ pg_max_posts = None /\ pg_all_posts = <<>>
    /\ pg_page = 1 /\ pg_requests = <<>> /\ pg_failed = FALSE
    /\ c_pc = "unused" /\ categories_map = <<>>
    /\ remote_cats = {} /\ remote_tags = {} /\ writer_steps = 0 /\ calls = 0
    /\ refs_used = 0 /\ c_caller = "none"
    /\ payload = [tags |-> <<>>, categories |-> <<>>]
    /\ cleaned_tags = <<>> /\ tag_ids = <<>> /\ ti = 1
    /\ category_ids = <<>> /\ cleaned_names = <<>> /\ cat_ids = <<>> /\ ci = 1
    /\ c_outcomes = <<>> /\ c_log = <<>> /\ c_submitted = <<>> /\ c_return = None
    /\ c_creates = <<>> /\ c_resolved = {} /\ c_cache0 = <<>>
    /\ in_pc = "new" /\ in_url \in UrlChoices /\ in_seed \in InitSeedChoices
    /\ in_api_url = <<>> /\ in_avail \in AvailChoices /\ in_page = 1
    /\ in_all = <<>> /\ in_requests = <<>> /\ in_failed = FALSE /\ in_map = <<>>
    /\ tm_pc = "idle" /\ tm_ids = <<>> /\ tm_unique = <<>> /\ tm_i = 0
    /\ tm_requests = <<>> /\ tm_map = <<>>
    /\ ts_pc = "idle" /\ ts_tags = <<>> /\ ts_cleaned = <<>>
    /\ mt_pc = "idle" /\ mt_items = <<>> /\ mt_name = <<>> /\ mt_result = None
    /\ al_pc = "idle" /\ al_text = <<>> /\ al_requests = <<>> /\ al_result = "none"
    /\ st_pc = "idle" /\ st_given = <<>> /\ st_payload = <<>> /\ st_submitted = <<>> /\ st_return = None
    /\ tc_pc = "idle" /\ tc_cat_id = None /\ tc_requests = <<>> /\ tc_result = "none"

ConstructNext == ClientInit \/ FetchRequestOk \/ FetchRequestFails

ConstructSpec == ConstructInit /\ [][ConstructNext]_vars

\* the two paginated fetches: the bulk fetch of a construction and a post
\* listing
PaginationInit ==
    /\ sl_pc = "idle" /\ sl_name = <<>> /\ sl_once = <<>> /\ sl_twice = <<>>
    /\ nm_pc = "idle" /\ nm_tags = <<>> /\ nm_max = 0 /\ nm_cleaned = <<>>
    /\ up_pc = "idle" /\ up_max_attempts = 0 /\ up_attempt = 0
    /\ up_outcomes = <<>> /\ up_sleeps = <<>> /\ up_result = None
    /\ pg_pc = "loop" /\ pg_avail \in AvailChoices /\ pg_max_posts \in PaginationMaxPosts
    /\ pg_all_posts = <<>> /\ pg_page = 1 /\ pg_requests = <<>> /\ pg_failed = FALSE
    /\ c_pc = "unused" /\ categories_map = <<>>
    /\ remote_cats = {} /\ remote_tags = {} /\ writer_steps = 0 /\ calls = 0
    /\ refs_used = 0 /\ c_caller = "none"
    /\ payload = [tags |-> <<>>, categories |-> <<>>]
    /\ cleaned_tags = <<>> /\ tag_ids = <<>> /\ ti = 1
    /\ category_ids = <<>> /\ cleaned_names = <<>> /\ cat_ids = <<>> /\ ci = 1
    /\ c_outcomes = <<>> /\ c_log = <<>> /\ c_submitted = <<>> /\ c_return = None
    /\ c_creates = <<>> /\ c_resolved = {} /\ c_cache0 = <<>>
    /\ in_pc = "new" /\ in_url = Some(Site) /\ in_seed = <<>>
    /\ in_api_url = <<>> /\ in_avail \in AvailChoices /\ in_page = 1
    /\ in_all = <<>> /\ in_requests = <<>> /\ in_failed = FALSE /\ in_map = <<>>
    /\ tm_pc = "idle" /\ tm_ids = <<>> /\ tm_unique = <<>> /\ tm_i = 0
    /\ tm_requests = <<>> /\ tm_map = <<>>
    /\ ts_pc = "idle" /\ ts_tags = <<>> /\ ts_cleaned = <<>>
    /\ mt_pc = "idle" /\ mt_items = <<>> /\ mt_name = <<>> /\ mt_result = None
    /\ al_pc = "idle" /\ al_text = <<>> /\ al_requests = <<>> /\ al_result = "none"
    /\ st_pc = "idle" /\ st_given = <<>> /\ st_payload = <<>> /\ st_submitted = <<>> /\ st_return = None
    /\ tc_pc = "idle" /\ tc_cat_id = None /\ tc_requests = <<>> /\ tc_result = "none"

PaginationNext ==
    \/ ClientInit
    \/ FetchRequestOk
    \/ FetchRequestFails
    \/ PageLimitBreak
    \/ PageRequestFails
    \/ PageRequestOk

PaginationSpec == PaginationInit /\ [][PaginationNext]_vars

\* the listing against a finite remote with any maximum, or against an
\* endless remote with a maximum of at least 1
EndlessMaxPosts == {Some(m) : m \in {1, 50, 100, 150, 250}}
ListingChoices ==
    (AvailChoices \X PaginationMaxPosts) \cup ({Endless} \X EndlessMaxPosts)

\* get_published_posts(fields, max_posts) called on a constructed client
ListingCall ==
    /\ in_pc = "ready"
    /\ pg_pc = "idle"
    /\ \E choice \in ListingChoices :
          /\ pg_avail' = choice[1]
          /\ pg_max_posts' = choice[2]
    /\ pg_all_posts' = <<>>
    /\ pg_page' = 1
    /\ pg_pc' = "loop"
    /\ UNCHANGED <<pg_requests, pg_failed, notPage>>

\* the construction of a client, then one listing on it
TerminationInit ==
    /\ sl_pc = "idle" /\ sl_name = <<>> /\ sl_once = <<>> /\ sl_twice = <<>>
    /\ nm_pc = "idle" /\ nm_tags = <<>> /\ nm_max = 0 /\ nm_cleaned = <<>>
    /\ up_pc = "idle" /\ up_max_attempts = 0 /\ up_attempt = 0
    /\ up_outcomes = <<>> /\ up_sleeps = <<>> /\ up_result = None
    /\ pg_pc = "idle" /\ pg_avail = 0 /\ pg_max_posts = None /\ pg_all_posts = <<>>
    /\ pg_page = 1 /\ pg_requests = <<>> /\ pg_failed = FALSE
    /\ c_pc = "unused" /\ categories_map = <<>>
    /\ remote_cats = {} /\ remote_tags = {} /\ writer_steps = 0 /\ calls = 0
    /\ refs_used = 0 /\ c_caller = "none"
    /\ payload = [tags |-> <<>>, categories |-> <<>>]
    /\ cleaned_tags = <<>> /\ tag_ids = <<>> /\ ti = 1
    /\ category_ids = <<>> /\ cleaned_names = <<>> /\ cat_ids = <<>> /\ ci = 1
    /\ c_outcomes = <<>> /\ c_log = <<>> /\ c_submitted = <<>> /\ c_return = None
    /\ c_creates = <<>> /\ c_resolved = {} /\ c_cache0 = <<>>
    /\ in_pc = "new" /\ in_url \in {None, Some(Site)} /\ in_seed = <<>> /\ in_api_url = <<>>
    /\ in_avail \in AvailChoices /\ in_page = 1 /\ in_all = <<>> /\ in_requests = <<>>
    /\ in_failed = FALSE /\ in_map = <<>>
    /\ tm_pc = "idle" /\ tm_ids = <<>> /\ tm_unique = <<>> /\ tm_i = 0
    /\ tm_requests = <<>> /\ tm_map = <<>>
    /\ ts_pc = "idle" /\ ts_tags = <<>> /\ ts_cleaned = <<>>
    /\ mt_pc = "idle" /\ mt_items = <<>> /\ mt_name = <<>> /\ mt_result = None
    /\ al_pc = "idle" /\ al_text = <<>> /\ al_requests = <<>> /\ al_result = "none"
    /\ st_pc = "idle" /\ st_given = <<>> /\ st_payload = <<>> /\ st_submitted = <<>> /\ st_return = None
    /\ tc_pc = "idle" /\ tc_cat_id = None /\ tc_requests = <<>> /\ tc_result = "none"

\* the next step of each loop: a request is answered or times out
ListingStep == PageLimitBreak \/ PageRequestFails \/ PageRequestOk
BulkFetchStep == ClientInit \/ FetchRequestOk \/ FetchRequestFails

TerminationNext ==
    \/ ClientInit
    \/ FetchRequestOk
    \/ FetchRequestFails
    \/ ListingCall
    \/ PageLimitBreak
    \/ PageRequestFails
    \/ PageRequestOk

\* both loops take their next step as long as they have one
TerminationSpec ==
    /\ TerminationInit
    /\ [][TerminationNext]_vars
    /\ WF_vars(BulkFetchStep)
    /\ WF_vars(ListingStep)

\* get_tags_map_by_ids on a list of tag IDs
TagMapInit ==
    /\ sl_pc = "idle" /\ sl_name = <<>> /\ sl_once = <<>> /\ sl_twice = <<>>
    /\ nm_pc = "idle" /\ nm_tags = <<>> /\ nm_max = 0 /\ nm_cleaned = <<>>
    /\ up_pc = "idle" /\ up_max_attempts = 0 /\ up_attempt = 0
    /\ up_outcomes = <<>> /\ up_sleeps = <<>> /\ up_result = None
    /\ pg_pc = "idle" /\ pg_avail = 0 /\ pg_max_posts = None /\ pg_all_posts = <<>>
    /\ pg_page = 1 /\ pg_requests = <<>> /\ pg_failed = FALSE
    /\ c_pc = "unused" /\ categories_map = <<>>
    /\ remote_cats = {} /\ remote_tags = {} /\ writer_steps = 0 /\ calls = 0
    /\ refs_used = 0 /\ c_caller = "none"
    /\ payload = [tags |-> <<>>, categories |-> <<>>]
    /\ cleaned_tags = <<>> /\ tag_ids = <<>> /\ ti = 1
    /\ category_ids = <<>> /\ cleaned_names = <<>> /\ cat_ids = <<>> /\ ci = 1
    /\ c_outcomes = <<>> /\ c_log = <<>> /\ c_submitted = <<>> /\ c_return = None
    /\ c_creates = <<>> /\ c_resolved = {} /\ c_cache0 = <<>>
    /\ in_pc = "idle" /\ in_url = None /\ in_seed = <<>> /\ in_api_url = <<>>
    /\ in_avail = 0 /\ in_page = 1 /\ in_all = <<>> /\ in_requests = <<>>
    /\ in_failed = FALSE /\ in_map = <<>>
    /\ tm_pc = "call" /\ tm_ids \in TagIdInputs /\ tm_unique = <<>> /\ tm_i = 0
    /\ tm_requests = <<>> /\ tm_map = <<>>
    /\ ts_pc = "idle" /\ ts_tags = <<>> /\ ts_cleaned = <<>>
    /\ mt_pc = "idle" /\ mt_items = <<>> /\ mt_name = <<>> /\ mt_result = None
    /\ al_pc = "idle" /\ al_text = <<>> /\ al_requests = <<>> /\ al_result = "none"
    /\ st_pc = "idle" /\ st_given = <<>> /\ st_payload = <<>> /\ st_submitted = <<>> /\ st_return = None
    /\ tc_pc = "idle" /\ tc_cat_id = None /\ tc_requests = <<>> /\ tc_result = "none"

TagMapNext == TagMapCall \/ TagMapChunk

TagMapSpec == TagMapInit /\ [][TagMapNext]_vars

\* create_post on a payload whose tags field is a string
StrTagInit ==
    /\ sl_pc = "idle" /\ sl_name = <<>> /\ sl_once = <<>> /\ sl_twice = <<>>
    /\ nm_pc = "idle" /\ nm_tags = <<>> /\ nm_max = 0 /\ nm_cleaned = <<>>
    /\ up_pc = "idle" /\ up_max_attempts = 0 /\ up_attempt = 0
    /\ up_outcomes = <<>> /\ up_sleeps = <<>> /\ up_result = None
    /\ pg_pc = "idle" /\ pg_avail = 0 /\ pg_max_posts = None /\ pg_all_posts = <<>>
    /\ pg_page = 1 /\ pg_requests = <<>> /\ pg_failed = FALSE
    /\ c_pc = "unused" /\ categories_map = <<>>
    /\ remote_cats = {} /\ remote_tags = {} /\ writer_steps = 0 /\ calls = 0
    /\ refs_used = 0 /\ c_caller = "none"
    /\ payload = [tags |-> <<>>, categories |-> <<>>]
    /\ cleaned_tags = <<>> /\ tag_ids = <<>> /\ ti = 1
    /\ category_ids = <<>> /\ cleaned_names = <<>> /\ cat_ids = <<>> /\ ci = 1
    /\ c_outcomes = <<>> /\ c_log = <<>> /\ c_submitted = <<>> /\ c_return = None
    /\ c_creates = <<>> /\ c_resolved = {} /\ c_cache0 = <<>>
    /\ in_pc = "idle" /\ in_url = None /\ in_seed = <<>> /\ in_api_url = <<>>
    /\ in_avail = 0 /\ in_page = 1 /\ in_all = <<>> /\ in_requests = <<>>
    /\ in_failed = FALSE /\ in_map = <<>>
    /\ tm_pc = "idle" /\ tm_ids = <<>> /\ tm_unique = <<>> /\ tm_i = 0
    /\ tm_requests = <<>> /\ tm_map = <<>>
    /\ ts_pc = "call" /\ ts_tags \in StrTagInputs /\ ts_cleaned = <<>>
    /\ mt_pc = "idle" /\ mt_items = <<>> /\ mt_name = <<>> /\ mt_result = None
    /\ al_pc = "idle" /\ al_text = <<>> /\ al_requests = <<>> /\ al_result = "none"
    /\ st_pc = "idle" /\ st_given = <<>> /\ st_payload = <<>> /\ st_submitted = <<>> /\ st_return = None
    /\ tc_pc = "idle" /\ tc_cat_id = None /\ tc_requests = <<>> /\ tc_result = "none"

StrTagNext == EnsureTagIdsOfStr

StrTagSpec == StrTagInit /\ [][StrTagNext]_vars

\* the recovery query for a name against a search result
MatchInit ==
    /\ sl_pc = "idle" /\ sl_name = <<>> /\ sl_once = <<>> /\ sl_twice = <<>>
    /\ nm_pc = "idle" /\ nm_tags = <<>> /\ nm_max = 0 /\ nm_cleaned = <<>>
    /\ up_pc = "idle" /\ up_max_attempts = 0 /\ up_attempt = 0
    /\ up_outcomes = <<>> /\ up_sleeps = <<>> /\ up_result = None
    /\ pg_pc = "idle" /\ pg_avail = 0 /\ pg_max_posts = None /\ pg_all_posts = <<>>
    /\ pg_page = 1 /\ pg_requests = <<>> /\ pg_failed = FALSE
    /\ c_pc = "unused" /\ categories_map = <<>>
    /\ remote_cats = {} /\ remote_tags = {} /\ writer_steps = 0 /\ calls = 0
    /\ refs_used = 0 /\ c_caller = "none"
    /\ payload = [tags |-> <<>>, categories |-> <<>>]
    /\ cleaned_tags = <<>> /\ tag_ids = <<>> /\ ti = 1
    /\ category_ids = <<>> /\ cleaned_names = <<>> /\ cat_ids = <<>> /\ ci = 1
    /\ c_outcomes = <<>> /\ c_log = <<>> /\ c_submitted = <<>> /\ c_return = None
    /\ c_creates = <<>> /\ c_resolved = {} /\ c_cache0 = <<>>
    /\ in_pc = "idle" /\ in_url = None /\ in_seed = <<>> /\ in_api_url = <<>>
    /\ in_avail = 0 /\ in_page = 1 /\ in_all = <<>> /\ in_requests = <<>>
    /\ in_failed = FALSE /\ in_map = <<>>
    /\ tm_pc = "idle" /\ tm_ids = <<>> /\ tm_unique = <<>> /\ tm_i = 0
    /\ tm_requests = <<>> /\ tm_map = <<>>
    /\ ts_pc = "idle" /\ ts_tags = <<>> /\ ts_cleaned = <<>>
    /\ mt_pc = "call" /\ mt_items \in SearchResults /\ mt_name \in SearchNames /\ mt_result = None
    /\ al_pc = "idle" /\ al_text = <<>> /\ al_requests = <<>> /\ al_result = "none"
    /\ st_pc = "idle" /\ st_given = <<>> /\ st_payload = <<>> /\ st_submitted = <<>> /\ st_return = None
    /\ tc_pc = "idle" /\ tc_cat_id = None /\ tc_requests = <<>> /\ tc_result = "none"

MatchNext == GetExistingId

MatchSpec == MatchInit /\ [][MatchNext]_vars

\* one create_post on a payload of IDs, with or without a status
StatusInit ==
    /\ sl_pc = "idle" /\ sl_name = <<>> /\ sl_once = <<>> /\ sl_twice = <<>>
    /\ nm_pc = "idle" /\ nm_tags = <<>> /\ nm_max = 0 /\ nm_cleaned = <<>>
    /\ up_pc = "idle" /\ up_max_attempts = 0 /\ up_attempt = 0
    /\ up_outcomes = <<>> /\ up_sleeps = <<>> /\ up_result = None
    /\ pg_pc = "idle" /\ pg_avail = 0 /\ pg_max_posts = None /\ pg_all_posts = <<>>
    /\ pg_page = 1 /\ pg_requests = <<>> /\ pg_failed = FALSE
    /\ c_pc = "unused" /\ categories_map = <<>>
    /\ remote_cats = {} /\ remote_tags = {} /\ writer_steps = 0 /\ calls = 0
    /\ refs_used = 0 /\ c_caller = "none"
    /\ payload = [tags |-> <<>>, categories |-> <<>>]
    /\ cleaned_tags = <<>> /\ tag_ids = <<>> /\ ti = 1
    /\ category_ids = <<>> /\ cleaned_names = <<>> /\ cat_ids = <<>> /\ ci = 1
    /\ c_outcomes = <<>> /\ c_log = <<>> /\ c_submitted = <<>> /\ c_return = None
    /\ c_creates = <<>> /\ c_resolved = {} /\ c_cache0 = <<>>
    /\ in_pc = "idle" /\ in_url = None /\ in_seed = <<>> /\ in_api_url = <<>>
    /\ in_avail = 0 /\ in_page = 1 /\ in_all = <<>> /\ in_requests = <<>>
    /\ in_failed = FALSE /\ in_map = <<>>
    /\ tm_pc = "idle" /\ tm_ids = <<>> /\ tm_unique = <<>> /\ tm_i = 0
    /\ tm_requests = <<>> /\ tm_map = <<>>
    /\ ts_pc = "idle" /\ ts_tags = <<>> /\ ts_cleaned = <<>>
    /\ mt_pc = "idle" /\ mt_items = <<>> /\ mt_name = <<>> /\ mt_result = None
    /\ al_pc = "idle" /\ al_text = <<>> /\ al_requests = <<>> /\ al_result = "none"
    /\ st_pc = "call" /\ st_given \in IdPayloads /\ st_payload = <<>>
    /\ st_submitted = <<>> /\ st_return = None
    /\ tc_pc = "idle" /\ tc_cat_id = None /\ tc_requests = <<>> /\ tc_result = "none"

StatusNext == StatusPrepare \/ StatusSubmit

StatusSpec == StatusInit /\ [][StatusNext]_vars

\* WORDPRESS_CATEGORIES of app/config.py, the seed main() gives the client
WORDPRESS_CATEGORIES ==
    << <<<<"f", "u", "t", "e", "b", "o", "l">>, 8>>,
       <<<<"f", "u", "t", "e", "b", "o", "l", "-",
           "i", "n", "t", "e", "r", "n", "a", "c", "i", "o", "n", "a", "l">>, 9>>,
       <<<<"o", "u", "t", "r", "o", "s", "-", "e", "s", "p", "o", "r", "t", "e", "s">>, 10>>,
       <<<<"N", "o", "t", "í", "c", "i", "a", "s">>, 1>>,
       <<<<"n", "o", "t", "i", "c", "i", "a", "s">>, 31>> >>

\* main() of test_wordpress_connection.py: the construction of the client,
\* then test_category_creation
TestInit ==
    /\ sl_pc = "idle" /\ sl_name = <<>> /\ sl_once = <<>> /\ sl_twice = <<>>
    /\ nm_pc = "idle" /\ nm_tags = <<>> /\ nm_max = 0 /\ nm_cleaned = <<>>
    /\ up_pc = "idle" /\ up_max_attempts = 0 /\ up_attempt = 0
    /\ up_outcomes = <<>> /\ up_sleeps = <<>> /\ up_result = None
    /\ pg_pc = "idle" /\ pg_avail = 0 /\ pg_max_posts = None /\ pg_all_posts = <<>>
    /\ pg_page = 1 /\ pg_requests = <<>> /\ pg_failed = FALSE
    /\ c_pc = "unused" /\ categories_map = <<>>
    /\ remote_cats = {} /\ remote_tags = {} /\ writer_steps = 0 /\ calls = 0
    /\ refs_used = 0 /\ c_caller = "none"
    /\ payload = [tags |-> <<>>, categories |-> <<>>]
    /\ cleaned_tags = <<>> /\ tag_ids = <<>> /\ ti = 1
    /\ category_ids = <<>> /\ cleaned_names = <<>> /\ cat_ids = <<>> /\ ci = 1
    /\ c_outcomes = <<>> /\ c_log = <<>> /\ c_submitted = <<>> /\ c_return = None
    /\ c_creates = <<>> /\ c_resolved = {} /\ c_cache0 = <<>>
    /\ in_pc = "new" /\ in_url \in UrlChoices /\ in_seed = WORDPRESS_CATEGORIES /\ in_api_url = <<>>
    /\ in_avail \in TestAvail /\ in_page = 1 /\ in_all = <<>> /\ in_requests = <<>>
    /\ in_failed = FALSE /\ in_map = <<>>
    /\ tm_pc = "idle" /\ tm_ids = <<>> /\ tm_unique = <<>> /\ tm_i = 0
    /\ tm_requests = <<>> /\ tm_map = <<>>
    /\ ts_pc = "idle" /\ ts_tags = <<>> /\ ts_cleaned = <<>>
    /\ mt_pc = "idle" /\ mt_items = <<>> /\ mt_name = <<>> /\ mt_result = None
    /\ al_pc = "idle" /\ al_text = <<>> /\ al_requests = <<>> /\ al_result = "none"
    /\ st_pc = "idle" /\ st_given = <<>> /\ st_payload = <<>> /\ st_submitted = <<>> /\ st_return = None
    /\ tc_pc = "idle" /\ tc_cat_id = None /\ tc_requests = <<>> /\ tc_result = "none"

TestNext ==
    \/ ClientInit
    \/ FetchRequestOk
    \/ FetchRequestFails
    \/ TestCreate
    \/ TestDelete

TestSpec == TestInit /\ [][TestNext]_vars

(***************************************************************************)
(* Properties                                                              *)
(***************************************************************************)

\* ---- C4 (SlugSpec) ------------------------------------------------------
\* C4: _slugify is idempotent and bounded: slugifying a slug gives the same
\* slug, the slug is never empty, and it is never longer than 190 characters.
C4_SlugIdempotentBounded ==
    /\ sl_pc \in {"once", "twice"} => sl_once # <<>> /\ Len(sl_once) <= SlugMaxLen
    /\ sl_pc = "twice" => sl_twice = sl_once

\* ---- C5 (NormSpec) ------------------------------------------------------
\* the comma-free segments of a string, each bounded by commas or by the ends
C5_Segments(str) ==
    {SubSeq(str, a, b) : <<a, b>> \in
        {ab \in (1..(Len(str) + 1)) \X (0..Len(str)) :
            /\ ab[1] <= ab[2] + 1
            /\ \A k \in ab[1]..ab[2] : str[k] # ","
            /\ ab[1] = 1 \/ str[ab[1] - 1] = ","
            /\ ab[2] = Len(str) \/ str[ab[2] + 1] = ","}}

\* the entries one input item names
C5_Names(item) ==
    CASE item.t = "int" -> {IntToStr(item.n)}
      [] item.t = "str" -> {Strip(g) : g \in C5_Segments(item.s)} \ {<<>>}
      [] OTHER -> {}

C5_AllNames == UNION {C5_Names(nm_tags[k]) : k \in 1..Len(nm_tags)}

\* the first input item that names entry e
C5_FirstItem(e) == MinOf({k \in 1..Len(nm_tags) : e \in C5_Names(nm_tags[k])})

\* C5: the normalised tag list holds no empty entry and no duplicate, keeps
\* the first-seen order, has at most max_tags entries (all the named entries
\* when they fit), and holds one entry for an integer n and the string of n.
C5_TagNormalization ==
    nm_pc = "cleaned" =>
        /\ \A i \in 1..Len(nm_cleaned) : nm_cleaned[i] # <<>>
        /\ \A i, j \in 1..Len(nm_cleaned) : i # j => nm_cleaned[i] # nm_cleaned[j]
        /\ Len(nm_cleaned) <= nm_max
        /\ Len(nm_cleaned) = IF Cardinality(C5_AllNames) < nm_max
                               THEN Cardinality(C5_AllNames) ELSE nm_max
        /\ \A i \in 1..Len(nm_cleaned) : nm_cleaned[i] \in C5_AllNames
        /\ \A i, j \in 1..Len(nm_cleaned) :
              i < j => C5_FirstItem(nm_cleaned[i]) <= C5_FirstItem(nm_cleaned[j])
        /\ \A k \in 1..Len(nm_tags) :
              nm_tags[k].t = "int" =>
                  Cardinality({i \in 1..Len(nm_cleaned) :
                                  nm_cleaned[i] = IntToStr(nm_tags[k].n)}) <= 1

\* the example of the specification: ["Messi", "messi", "2", 2, "a,b", ""]
C5_Witness ==
    /\ nm_pc = "cleaned"
    /\ nm_tags = ExampleTags
    /\ nm_max = DefaultMaxTags
    /\ nm_cleaned = <<Str_Messi, Str_messi, <<"2">>, <<"a">>, <<"b">>>>

\* ---- C6 (UploadSpec) ----------------------------------------------------
\* C6: only network-level failures are retried: after k network failures a
\* success at attempt k+1 returns that attempt's attachment after exactly k+1
\* attempts; an HTTP error ends the call with a failure and no further
\* attempt; and the call does not give up after a network failure while
\* attempts remain.
C6_RetryOnlyNetworkFailures ==
    /\ Len(up_outcomes) = up_attempt
    /\ \A j \in 1..Len(up_outcomes) :
          /\ j < Len(up_outcomes) => up_outcomes[j] \in NetworkFailures
          /\ up_outcomes[j] = "success" =>
                /\ up_pc = "done"
                /\ up_result = Some(Attachment(j))
                /\ up_attempt = j
          /\ up_outcomes[j] \in HttpFailures =>
                /\ up_pc = "done"
                /\ up_result = None
                /\ up_attempt = j
    /\ (up_pc = "done" /\ up_outcomes # <<>>
          /\ up_outcomes[Len(up_outcomes)] \in NetworkFailures)
          => up_attempt = up_max_attempts /\ up_result = None

\* two timeouts, then a success at the third attempt
C6_Witness ==
    /\ up_pc = "done"
    /\ up_max_attempts = DefaultMaxAttempts
    /\ up_outcomes = <<"download_timeout", "upload_timeout", "success">>
    /\ up_result = Some(Attachment(3))

\* ---- C7 (PageSpec) ------------------------------------------------------
\* C7: with no failed request, the listing returns the pages up to and
\* including the first short page and requests nothing after it; with a
\* maximum m (a non-negative integer) it returns exactly min(m, available)
\* posts and issues no request once m posts are accumulated.
C7_PaginationAndMaximum ==
    (pg_pc = "done" /\ ~pg_failed) =>
        IF pg_max_posts = None
          THEN /\ pg_all_posts = [i \in 1..pg_avail |-> i]
               /\ Len(pg_requests) = (pg_avail \div PerPage) + 1
          ELSE /\ Len(pg_all_posts) =
                    IF pg_max_posts[1] < pg_avail THEN pg_max_posts[1] ELSE pg_avail
               /\ \A r \in 1..Len(pg_requests) : pg_requests[r].had < pg_max_posts[1]

\* ---- the client (Spec) ---------------------------------------------------
\* the remote store of a kind of term
StoreOf(kind) == IF kind = "cat" THEN remote_cats ELSE remote_tags

\* the ID of the term of the remote store that bears a name
ExistingId(kind, name) ==
    (CHOOSE t \in StoreOf(kind) : NameKey(t.name) = NameKey(name)).id

\* the outcomes of the current call, by kind
OutcomesOf(kind) == SelectSeq(c_outcomes, LAMBDA o : o.kind = kind)

\* create_post has returned
PostReturned == c_pc = "idle" /\ c_caller = "create_post"

\* C1: two names equal up to case and surrounding whitespace resolve to the
\* same ID within one client, and at most one creation request is issued for
\* them, whatever the remote answers.
C1_SameTermOneIdOneCreation ==
    /\ \A o1, o2 \in c_resolved :
          (o1.kind = o2.kind /\ NameKey(o1.name) = NameKey(o2.name)) => o1.id = o2.id
    /\ \A i, j \in 1..Len(c_creates) :
          (c_creates[i].req = c_creates[j].req
             /\ NameKey(c_creates[i].name) = NameKey(c_creates[j].name)) => i = j

\* C2: a category name whose lowercased form or slug is a key of the cache
\* never reaches a creation (or recovery) request, whatever the cached ID.
C2_CachedNameNeverCreated ==
    c_pc \in {"cat_create", "cat_recover"} =>
        /\ Lower(cleaned_names[ci]) \notin DOMAIN categories_map
        /\ _slugify(cleaned_names[ci]) \notin DOMAIN categories_map

\* C3 as stated: a creation answered term_exists always ends with the ID of
\* the existing term, never with the name reported as failed.
C3_ConflictAlwaysRecovers ==
    \A i \in 1..Len(c_outcomes) :
        c_outcomes[i].how \in {"recovered", "no_match", "recovery_failed"} =>
            c_outcomes[i].id = Some(ExistingId(c_outcomes[i].kind, c_outcomes[i].name))

\* C3 (amended): a creation answered term_exists, whose re-query is answered,
\* ends with the ID of the existing term, for categories and tags, wherever
\* the other writer's step falls.
C3_ConflictRecoversWhenAnswered ==
    \A i \in 1..Len(c_outcomes) :
        c_outcomes[i].how \in {"recovered", "no_match"} =>
            c_outcomes[i].id = Some(ExistingId(c_outcomes[i].kind, c_outcomes[i].name))

\* the other writer created "NB" after the cache load; the client's creation
\* of "Nb" was answered term_exists and the re-query gave the writer's term
C3_Witness ==
    /\ writer_steps = 1
    /\ Lower(S_Nb) \notin DOMAIN c_cache0
    /\ \E i \in 1..Len(c_outcomes) : \E t \in remote_cats :
          /\ t.name = S_NB
          /\ t.id >= 20
          /\ c_outcomes[i] = Outcome("cat", S_Nb, "recovered", Some(t.id))

\* creation requests of the current call for names sharing a cache key with n
C8_Creations(n) ==
    Cardinality({i \in 1..Len(c_log) :
        /\ c_log[i].req = "POST /categories"
        /\ \/ Lower(c_log[i].name) = Lower(n)
           \/ _slugify(c_log[i].name) = _slugify(n)})

\* the name had a cache entry when create_post was entered
C8_Cached(n) == Lower(n) \in DOMAIN c_cache0 \/ _slugify(n) \in DOMAIN c_cache0

\* C8: create_post issues exactly one creation request per distinct uncached
\* name and none for a cached name, and submits only integer IDs, one per
\* distinct resolved or supplied ID.
C8_OneCreationPerUncachedName ==
    PostReturned =>
        /\ \A n \in Range(cleaned_names) :
              C8_Creations(n) = IF C8_Cached(n) THEN 0 ELSE 1
        /\ Len(c_submitted) = 1
        /\ Range(c_submitted[1].payload.categories) \subseteq Int
        /\ Len(c_submitted[1].payload.categories) =
              Cardinality(Range(c_submitted[1].payload.categories))
        /\ Range(c_submitted[1].payload.categories) =
              Range(category_ids) \cup
              {o.id[1] : o \in {x \in Range(OutcomesOf("cat")) : Truthy(x.id)}}

\* C9: create_post returns the post ID exactly when the submission succeeded,
\* and None when it got an error status or a network failure.
C9_ReturnsIdIffSubmitted ==
    PostReturned =>
        /\ Len(c_submitted) = 1
        /\ c_submitted[1].answer = "ok" => c_return = Some(PostId(calls))
        /\ c_submitted[1].answer # "ok" => c_return = None

\* a submission that met a network failure was reported as a failure
C9_Witness ==
    /\ PostReturned
    /\ Len(c_submitted) = 1
    /\ c_submitted[1].answer = "network_failure"
    /\ c_return = None

\* C10: a name that fails to resolve is skipped; every other name of the
\* batch is still examined, and the post is submitted with the IDs that did
\* resolve.
C10_FailuresArePerName ==
    PostReturned =>
        /\ MapSeq(OutcomesOf("cat"), LAMBDA o : o.name) = cleaned_names
        /\ MapSeq(OutcomesOf("tag"), LAMBDA o : o.name) = cleaned_tags
        /\ \A i \in 1..Len(c_outcomes) :
              c_outcomes[i].how \in {"cached", "created", "recovered", "found"}
                  => Truthy(c_outcomes[i].id)
        /\ Len(c_submitted) = 1
        /\ Range(c_submitted[1].payload.categories) =
              Range(category_ids) \cup
              {o.id[1] : o \in {x \in Range(OutcomesOf("cat")) : Truthy(x.id)}}
        /\ c_submitted[1].payload.tags =
              MapSeq(SelectSeq(OutcomesOf("tag"),
                               LAMBDA o : o.how = "numeric" \/ Truthy(o.id)),
                     LAMBDA o : o.id[1])

\* the first category name was rejected, the second resolved, and the post
\* was submitted with the second name's ID alone
C10_Witness ==
    /\ PostReturned
    /\ Len(c_outcomes) = 2
    /\ c_outcomes[1].kind = "cat" /\ c_outcomes[1].how = "rejected"
    /\ c_outcomes[2].kind = "cat" /\ Truthy(c_outcomes[2].id)
    /\ Len(c_submitted) = 1
    /\ c_submitted[1].payload.categories = <<c_outcomes[2].id[1]>>

\* ---- C11 (Spec) ----------------------------------------------------------
\* C11: the ID list taxonomy resolution returns holds no ID twice: the list
\* _ensure_tag_ids returns (tag_ids when its loop has ended) and the list
\* resolve_category_names_to_ids returns.
C11_ReturnedIdsDistinct ==
    /\ (c_pc = "tag_loop" /\ ti > Len(cleaned_tags)) =>
          Cardinality(Range(tag_ids)) = Len(tag_ids)
    /\ (c_pc = "idle" /\ c_caller = "resolve") =>
          Cardinality(Range(c_return)) = Len(c_return)

\* ---- C12 (PaginationSpec) -------------------------------------------------
\* C12: when a page request fails, in the post listing and in the bulk fetch
\* of categories, it is the last request, and the items of all the pages
\* fetched before it are returned.
C12_FailureKeepsEarlierPages ==
    /\ pg_failed =>
          LET p == Len(pg_requests) IN
          /\ pg_pc = "done"
          /\ pg_requests[p].page = p
          /\ pg_all_posts = [i \in 1..((p - 1) * PerPage) |-> i]
    /\ in_failed =>
          LET p == Len(in_requests) IN
          /\ in_pc = "ready"
          /\ in_requests[p].page = p /\ ~in_requests[p].ok
          /\ \A r \in 1..(p - 1) : in_requests[r].ok
          /\ Cardinality(DOMAIN in_all) = 2 * (p - 1) * PerPage
          /\ \A k \in 1..((p - 1) * PerPage) :
                /\ in_all[Lower(RemoteCat(k).name)] = k
                /\ in_all[RemoteCat(k).slug] = k
                /\ in_map[Lower(RemoteCat(k).name)] = k
                /\ in_map[RemoteCat(k).slug] = k

\* the third page request of the listing failed after two full pages, and
\* the second page request of the bulk fetch failed after one full page
C12_Witness ==
    /\ pg_failed /\ Len(pg_requests) = 3 /\ Len(pg_all_posts) = 2 * PerPage
    /\ in_failed /\ Len(in_requests) = 2 /\ Cardinality(DOMAIN in_map) = 2 * PerPage

\* ---- C15 (ConstructSpec) --------------------------------------------------
\* C15: construction with a missing or empty base URL raises before any
\* request and leaves no client; construction is never ended by a failed
\* request (a fetch that fails at once leaves the lowercased seed); and the
\* REST path is appended exactly when the URL does not contain it.
C15_ConstructionAndBaseUrl ==
    LET url == IF in_url = None THEN <<>> ELSE in_url[1] IN
    /\ (in_pc # "new" /\ url = <<>>) => in_pc = "raised"
    /\ in_pc = "raised" =>
          /\ in_requests = <<>> /\ in_api_url = <<>> /\ in_map = <<>>
          /\ \A i \in 1..Len(url) : url[i] = "/"
    /\ in_failed => in_pc = "ready"
    /\ (in_failed /\ Len(in_requests) = 1) =>
          /\ DOMAIN in_map = {Lower(in_seed[i][1]) : i \in 1..Len(in_seed)}
          /\ \A i \in 1..Len(in_seed) :
                (\A j \in (i + 1)..Len(in_seed) : Lower(in_seed[j][1]) # Lower(in_seed[i][1]))
                    => in_map[Lower(in_seed[i][1])] = in_seed[i][2]
    /\ in_pc \in {"fetch", "ready"} =>
          /\ Contains(in_api_url, RestPath)
          /\ Len(in_api_url) =
                Len(RStrip(url, {"/"})) + (IF Contains(url, RestPath) THEN 0 ELSE Len(RestPath))
          /\ SubSeq(in_api_url, 1, Len(RStrip(url, {"/"}))) = RStrip(url, {"/"})

\* a URL that holds the REST path and a trailing slash, and a bulk fetch that
\* failed: the client is built, with the URL as given less the slash
C15_Witness ==
    /\ in_pc = "ready"
    /\ in_failed
    /\ in_url = Some(Site \o RestPath \o <<"/">>)
    /\ in_api_url = Site \o RestPath

\* ---- C16 (ConstructSpec) --------------------------------------------------
\* C16: after construction the cache holds the keys of the lowercased seed
\* and of the bulk fetch; a key of the fetch maps to the fetched ID, a key of
\* the seed alone maps to its seed ID, and without a failed request every
\* remote category is in the cache under its name and its slug.
C16_CacheIsSeedOverriddenByFetch ==
    in_pc = "ready" =>
        /\ DOMAIN in_map =
              DOMAIN in_all \cup {Lower(in_seed[i][1]) : i \in 1..Len(in_seed)}
        /\ \A key \in DOMAIN in_all : in_map[key] = in_all[key]
        /\ \A i \in 1..Len(in_seed) :
              (/\ Lower(in_seed[i][1]) \notin DOMAIN in_all
               /\ \A j \in (i + 1)..Len(in_seed) :
                     Lower(in_seed[j][1]) # Lower(in_seed[i][1]))
                  => in_map[Lower(in_seed[i][1])] = in_seed[i][2]
        /\ ~in_failed =>
              \A k \in 1..in_avail :
                  /\ in_map[Lower(RemoteCat(k).name)] = k
                  /\ in_map[RemoteCat(k).slug] = k

\* the seed gives "C 1" the ID 9 and the remote gives it the ID 1: the cache
\* holds 1 for it, and keeps the seed's "Fu"
C16_Witness ==
    /\ in_pc = "ready"
    /\ ~in_failed
    /\ in_avail >= 1
    /\ in_seed = << <<<<"C", " ", "1">>, 9>>, <<S_Fu, 8>> >>
    /\ in_map[<<"c", " ", "1">>] = 1
    /\ in_map[<<"f", "u">>] = 8

\* ---- C13 (TagMapSpec) -----------------------------------------------------
\* C13 as stated: once a request of the tag lookup has failed, no further
\* request is issued.
C13_FailureEndsLookup ==
    \A r \in 1..Len(tm_requests) : ~tm_requests[r].ok => r = Len(tm_requests)

\* C13 (amended): the lookup issues one request per chunk of 100 distinct
\* IDs (taken in the order of the set) whether or not earlier requests
\* failed, and returns the names of the IDs the remote holds among the chunks
\* whose request succeeded.
C13_FailedChunkIsSkipped ==
    tm_pc = "done" =>
        LET n == Cardinality(Range(tm_ids)) IN
        /\ Len(tm_requests) = (n + ChunkSize - 1) \div ChunkSize
        /\ \A r \in 1..Len(tm_requests) :
              /\ tm_requests[r].first = (r - 1) * ChunkSize
              /\ tm_requests[r].size =
                    IF r * ChunkSize <= n THEN ChunkSize ELSE n - (r - 1) * ChunkSize
        /\ Len(tm_unique) = n
        /\ Range(tm_unique) = Range(tm_ids)
        /\ DOMAIN tm_map =
              {tm_unique[k] : k \in {j \in 1..n :
                  /\ tm_unique[j] \notin MissingTagIds
                  /\ tm_requests[((j - 1) \div ChunkSize) + 1].ok}}
        /\ \A id \in DOMAIN tm_map : tm_map[id] = RemoteTagName(id)

\* 237 IDs in three chunks: the first request failed, the other two were
\* still issued and gave the names of the IDs 101..237
C13_Witness ==
    /\ tm_pc = "done"
    /\ Len(tm_requests) = 3
    /\ ~tm_requests[1].ok /\ tm_requests[2].ok /\ tm_requests[3].ok
    /\ DOMAIN tm_map = 101..237

\* ---- C14 (StrTagSpec) -----------------------------------------------------
\* C14: a tags field that is one comma-separated string is normalised to the
\* same tag references as the list of its comma-separated sub-names.
C14_StringTagsAsListOfSubNames ==
    ts_pc = "done" =>
        ts_cleaned = CleanedTags(MapSeq(StrippedParts(ts_tags), StrItem), DefaultMaxTags)

\* ---- C17 (Spec) -----------------------------------------------------------
\* the category names of the running call that were created or recovered
C17_Written == {i \in 1..Len(c_outcomes) :
                   /\ c_outcomes[i].kind = "cat"
                   /\ c_outcomes[i].how \in {"created", "recovered"}}

\* C17: from the step that creates or recovers a category name on, the cache
\* maps its lowercased name and its slug to the returned ID; a cache entry
\* with a non-zero ID is never removed or changed, in the same batch or in a
\* later call of the client; and a creation request is only issued for a name
\* whose lowercased form and slug both have no non-zero ID in the cache.
C17_CacheWrittenAtOnce ==
    /\ [](\A i \in C17_Written :
             /\ CacheGet(categories_map, Lower(c_outcomes[i].name)) = c_outcomes[i].id
             /\ CacheGet(categories_map, _slugify(c_outcomes[i].name)) = c_outcomes[i].id)
    /\ [][\A key \in DOMAIN categories_map :
             categories_map[key] # 0 =>
                 /\ key \in DOMAIN categories_map'
                 /\ categories_map'[key] = categories_map[key]]_vars
    /\ [][(Len(c_creates') > Len(c_creates) /\ c_creates'[Len(c_creates')].req = "cat") =>
             LET name == c_creates'[Len(c_creates')].name IN
             /\ ~Truthy(CacheGet(categories_map, Lower(name)))
             /\ ~Truthy(CacheGet(categories_map, _slugify(name)))]_vars

\* "N!b" was created, and the next name of the batch, "Nb", whose lowercased
\* form is the slug of "N!b", was served from the cache with the same ID and
\* without a creation request
C17_Witness ==
    /\ Len(c_outcomes) = 2
    /\ c_outcomes[1].kind = "cat" /\ c_outcomes[1].how = "created"
    /\ c_outcomes[1].name = S_NxB
    /\ c_outcomes[2].kind = "cat" /\ c_outcomes[2].how = "cached"
    /\ c_outcomes[2].name = S_Nb
    /\ c_outcomes[2].id = c_outcomes[1].id
    /\ \A r \in 1..Len(c_creates) : c_creates[r].name # S_Nb

\* ---- C18 (MatchSpec) ------------------------------------------------------
\* the items of the search result that match the requested name, and those
\* that match its slug
C18_ByName == {i \in 1..Len(mt_items) :
                  Lower(Strip(mt_items[i].name)) = Lower(Strip(mt_name))}
C18_BySlug == {i \in 1..Len(mt_items) : mt_items[i].slug = _slugify(mt_name)}

\* C18: the recovery query returns an ID only of a returned item whose
\* trimmed name equals the requested name case-insensitively, or, when no
\* item matches by name, of an item whose slug is the slug of the requested
\* name; with no match of either kind it returns no ID.
C18_NeverAWrongTerm ==
    (mt_pc = "done" /\ mt_result # None) =>
        /\ C18_ByName # {} => \E i \in C18_ByName : mt_result = Some(mt_items[i].id)
        /\ C18_ByName = {} => \E i \in C18_BySlug : mt_result = Some(mt_items[i].id)

\* the result holds a slug match before the name match: the name match is
\* returned
C18_Witness ==
    /\ mt_pc = "done"
    /\ mt_name = S_Nb
    /\ mt_items = <<Term(3, S_NxB, <<"n", "b">>), Term(1, S_Nb, <<"n", "b">>)>>
    /\ mt_result = Some(1)

\* ---- C19 (UploadSpec) -----------------------------------------------------
\* C19: the upload never makes more than max_attempts attempts; a call in
\* which every attempt met a network-level failure returns the failure signal
\* after exactly max_attempts attempts; and the wait after failed attempt k is
\* 2*k seconds, strictly increasing with k.
C19_BoundedRetryLinearBackoff ==
    /\ up_attempt <= up_max_attempts
    /\ (up_pc \in {"done", "raised"}
          /\ \A j \in 1..Len(up_outcomes) : up_outcomes[j] \in NetworkFailures)
          => /\ up_pc = "done"
             /\ up_result = None
             /\ up_attempt = up_max_attempts
    /\ \A k \in 1..Len(up_sleeps) :
          /\ up_sleeps[k] = 2 * k
          /\ k > 1 => up_sleeps[k] > up_sleeps[k - 1]
    /\ Len(up_sleeps) =
          Cardinality({j \in 1..Len(up_outcomes) : up_outcomes[j] \in NetworkFailures})

\* ---- C20 (UploadSpec) -----------------------------------------------------
\* C20: an upload that was given alt text and succeeded is followed, within
\* the upload operation, by an alt-text request for its attachment; and a
\* failed alt-text assignment returns False, raises nothing and leaves the
\* result of the upload as it was.
C20_AltTextAfterUpload ==
    /\ (up_pc = "done" /\ up_result # None /\ al_text # <<>>) =>
          \E r \in 1..Len(al_requests) :
             /\ al_requests[r].media_id = up_result[1].id
             /\ al_requests[r].alt_text = al_text
    /\ al_pc = "returned" =>
          /\ al_result \in {"True", "False"}
          /\ up_pc = "done" /\ up_result # None
          /\ al_result = "True" <=>
                (al_requests # <<>> /\ al_requests[Len(al_requests)].answer = "ok")

\* ---- C21 (StatusSpec) -----------------------------------------------------
\* C21: the submitted payload has the status 'publish' when the caller's
\* payload had no status field, and the caller's status, unchanged, when it
\* had one (whatever its value).
C21_DefaultStatusOnlyWhenAbsent ==
    \A r \in 1..Len(st_submitted) :
       IF st_given.status = None
         THEN st_submitted[r].payload.status = Some("publish")
         ELSE st_submitted[r].payload.status = st_given.status

\* a payload given with the status "draft" and numeric tags was submitted as a
\* draft
C21_Witness ==
    /\ st_pc = "done"
    /\ Len(st_submitted) = 1
    /\ st_given.status = Some("draft")
    /\ st_submitted[1].payload.status = Some("draft")
    /\ st_given.tags # <<>>

\* ---- C22 (TestSpec) -------------------------------------------------------
\* the deletion requests of the test
C22_Deletions == {r \in 1..Len(tc_requests) : tc_requests[r].req = "DELETE /categories"}

\* C22: the test reports success only when _create_category returned an ID
\* and the deletion request that followed, for that ID, reported the category
\* deleted; a deletion request is issued only after the creation step gave an
\* ID, at most once and for that ID; and a creation step without an ID ends
\* the test with a failure and without a deletion request.
C22_SuccessNeedsCreateAndDelete ==
    /\ tc_result = "success" =>
          /\ Truthy(tc_cat_id)
          /\ tc_requests[Len(tc_requests)] =
                [req |-> "DELETE /categories", id |-> tc_cat_id, answer |-> "deleted"]
    /\ \A r \in C22_Deletions :
          /\ r = Len(tc_requests)
          /\ r > 1
          /\ tc_requests[r - 1].answer \in {"created", "recovered"}
          /\ Truthy(tc_cat_id)
          /\ tc_requests[r].id = tc_cat_id
    /\ (tc_pc \in {"delete", "done"} /\ ~Truthy(tc_cat_id)) =>
          /\ tc_pc = "done"
          /\ tc_result = "failure"
          /\ C22_Deletions = {}
    /\ tc_pc = "done" => tc_result \in {"success", "failure"}

\* the category was created with ID 21 and the deletion answered 200 without
\* "deleted": the test reports a failure
C22_Witness ==
    /\ tc_pc = "done"
    /\ tc_cat_id = Some(21)
    /\ Len(tc_requests) = 2
    /\ tc_requests[1].answer = "created"
    /\ tc_requests[2].answer = "not_deleted"
    /\ tc_result = "failure"

\* ---- C23 (Spec) -----------------------------------------------------------
\* C23: after construction no step removes a key of the cache or changes the
\* ID of a key it holds, and the cache changes only in a step of the category
\* resolver that created or recovered a name (not in a tag step, a
\* submission, a failed creation or a step of another writer).
C23_CacheOnlyGrows ==
    [][c_pc # "new" =>
          /\ \A key \in DOMAIN categories_map :
                /\ key \in DOMAIN categories_map'
                /\ categories_map'[key] = categories_map[key]
          /\ categories_map' # categories_map =>
                /\ c_pc \in {"cat_create", "cat_recover"}
                /\ Len(c_outcomes') = Len(c_outcomes) + 1
                /\ c_outcomes'[Len(c_outcomes')].kind = "cat"
                /\ c_outcomes'[Len(c_outcomes')].how \in {"created", "recovered"}]_vars

\* ---- C24 (ShortTagSpec) ---------------------------------------------------
\* C24: every non-numeric name of the normalised tag list that the loop has
\* passed was sent to the remote in a lookup or creation request, whatever
\* its length.
C24_EveryNameIsResolved ==
    \A i \in 1..Len(c_outcomes) :
       (c_outcomes[i].kind = "tag" /\ ~IsDigit(c_outcomes[i].name)) =>
           \E r \in 1..Len(c_log) :
              /\ c_log[r].req \in {"GET /tags", "POST /tags"}
              /\ c_log[r].name = c_outcomes[i].name

\* ---- C25 (Spec) -----------------------------------------------------------
C25_TagRequests == {"GET /tags", "POST /tags"}
C25_CatRequests == {"POST /categories", "GET /categories"}

\* C25: a call issues at most one POST /posts, as the last request of the
\* call and after both taxonomy loops have ended; the tag requests of the
\* call come before its category requests; after the submission the call has
\* returned, so a failed submission is not made again; and a direct call of
\* the resolver submits nothing.
C25_OneSubmissionAfterTaxonomy ==
    /\ Len(c_submitted) <= 1
    /\ \A r \in 1..Len(c_log) :
          c_log[r].req = "POST /posts" =>
              /\ r = Len(c_log)
              /\ c_submitted # <<>>
    /\ c_submitted # <<>> =>
          /\ c_caller = "create_post"
          /\ c_pc = "idle"
          /\ c_log[Len(c_log)].req = "POST /posts"
          /\ ti > Len(cleaned_tags)
          /\ ci > Len(cleaned_names)
          /\ c_submitted[1].answer # "ok" => c_return = None
    /\ \A r1, r2 \in 1..Len(c_log) :
          (r1 < r2 /\ c_log[r1].req \in C25_CatRequests) =>
              c_log[r2].req \notin C25_TagRequests

\* a call that looked up and created a tag, then created a category, and
\* whose submission was rejected: four requests, one submission, no post
C25_Witness ==
    /\ c_pc = "idle"
    /\ Len(c_submitted) = 1
    /\ c_submitted[1].answer = "http_error"
    /\ c_return = None
    /\ Len(c_log) = 4
    /\ c_log[1].req = "GET /tags" /\ c_log[2].req = "POST /tags"
    /\ c_log[3].req = "POST /categories" /\ c_log[4].req = "POST /posts"

\* ---- C26 (TerminationSpec) ------------------------------------------------
\* ceil(m / 100)
C26_Ceil(m) == (m + PerPage - 1) \div PerPage

\* C26: both loops end; while a loop is still running every request it made
\* was answered with a full page (an empty page, a short page or a failed
\* request ends it at once), so a remote of n items gets at most n \div 100 + 1
\* requests; and the listing with a maximum m >= 1 makes at most ceil(m / 100)
\* requests, also against a remote that returns full pages without end.
C26_PaginationTerminates ==
    /\ <>(in_pc \in {"ready", "raised"})
    /\ (pg_pc = "loop") ~> (pg_pc = "done")
    /\ [](pg_pc = "loop" =>
             /\ ~pg_failed
             /\ Len(pg_all_posts) = PerPage * Len(pg_requests)
             /\ pg_page = Len(pg_requests) + 1)
    /\ [](in_pc = "fetch" =>
             /\ ~in_failed
             /\ Cardinality(DOMAIN in_all) = 2 * PerPage * Len(in_requests)
             /\ in_page = Len(in_requests) + 1)
    /\ [](pg_avail # Endless => Len(pg_requests) <= (pg_avail \div PerPage) + 1)
    /\ [](Len(in_requests) <= (in_avail \div PerPage) + 1)
    /\ []((Truthy(pg_max_posts) /\ pg_max_posts[1] >= 1) =>
             Len(pg_requests) <= C26_Ceil(pg_max_posts[1]))

\* against the endless remote, the listing with the maximum 150 ended after
\* two requests with 150 posts
C26_Witness ==
    /\ pg_avail = Endless
    /\ pg_max_posts = Some(150)
    /\ pg_pc = "done"
    /\ ~pg_failed
    /\ Len(pg_requests) = 2
    /\ Len(pg_all_posts) = 150
    /\ in_pc = "ready"

====
